---- MODULE Spec2Model ----
(***************************************************************************)
(* Reliability and data-shaping layer of the NYC Open Data MCP server:     *)
(* query cache, retry, auto-pagination, request tracking, input            *)
(* validation and the tool operations built on them.                       *)
(*                                                                         *)
(* Time is counted in minutes (Date.now() coarsened), so the TTL tiers and *)
(* the request window keep their source values.  Retry delays are kept in  *)
(* milliseconds; a sleeping retry may be woken after any amount of model   *)
(* time (an over-approximation of setTimeout).                             *)
(***************************************************************************)
EXTENDS Integers, Sequences, FiniteSets, TLC

VARIABLES now, queryCache, calls, getResult, requestCount, requestWindow,
          retry, pg, tool, strCheck, valCheck, dedup,
          trend,
          timeWindow,
          geoCache, geo,
          reliable,
          keyed

vars == <<now, queryCache, calls, getResult, requestCount, requestWindow,
          retry, pg, tool, strCheck, valCheck, dedup,
          trend,
          timeWindow,
          geoCache, geo,
          reliable,
          keyed>>

(***************************************************************************)
(* Bounds of the model                                                     *)
(***************************************************************************)
MaxTime == 2
MaxRequestCount == 3
MaxPageLen == 3
MaxPagesOption == 3
MaxRecordsOption == 3
MaxStrLen == 4
MaxRecords == 3
MaxCount == 2
MaxPeriods == 15
MaxDay == 1
MaxKeyedCalls == 3

\* The day `new Date()` falls on, counted from the epoch.
Today == 400

(***************************************************************************)
(* JavaScript values                                                       *)
(***************************************************************************)
UNDEF == [t |-> "undefined"]
NULL == [t |-> "null"]
Num(n) == [t |-> "number", n |-> n]
Frac(n) == [t |-> "number", n |-> n, frac |-> TRUE]
Str(s) == [t |-> "string", s |-> s]
Rows(id) == [t |-> "array", id |-> id]
Bool(b) == [t |-> "boolean", b |-> b]

IsStr(v) == v.t = "string"
IsInt(v) == v.t = "number" /\ DOMAIN v = {"t", "n"}

\* JavaScript truthiness: undefined, null, 0 and "" are falsy.
Truthy(v) ==
  CASE v.t = "undefined" -> FALSE
    [] v.t = "null" -> FALSE
    [] v.t = "string" -> v.s # <<>>
    [] v.t = "number" -> IF IsInt(v) THEN v.n # 0 ELSE TRUE
    [] v.t = "boolean" -> v.b
    [] OTHER -> TRUE

Max(a, b) == IF a >= b THEN a ELSE b
Min(a, b) == IF a <= b THEN a ELSE b

(***************************************************************************)
(* Cache configuration                                                     *)
(***************************************************************************)
DEFAULT_TTL == 5
SHORT_TTL == 1
\* 1000 in the source; scaled down so that the cache fills up.
MAX_SIZE == 3

CACHE_CONFIG == [DEFAULT_TTL |-> DEFAULT_TTL, SHORT_TTL |-> SHORT_TTL,
                 MAX_SIZE |-> MAX_SIZE]

(***************************************************************************)
(* Cache keys: hash of endpoint and the parameters serialized with their   *)
(* names sorted.  A parameter bag is a sequence of <<name, value>> pairs   *)
(* in the caller's property order.  The MD5 hash is taken as injective on  *)
(* the serialization, so the key is the serialization itself.              *)
(***************************************************************************)
RECURSIVE InsertSorted(_, _)
InsertSorted(pair, sorted) ==
  IF sorted = <<>> THEN <<pair>>
  ELSE IF pair[1] <= Head(sorted)[1] THEN <<pair>> \o sorted
  ELSE <<Head(sorted)>> \o InsertSorted(pair, Tail(sorted))

RECURSIVE SortedParams(_)
SortedParams(params) ==
  IF params = <<>> THEN <<>>
  ELSE InsertSorted(Head(params), SortedParams(Tail(params)))

getCacheKey(endpoint, params) == <<endpoint, SortedParams(params)>>

Endpoints == {"erm2-nwe9", "wvxf-dwi5"}
ParamBags == { <<<<2, 20>>, <<1, 10>>>>, <<<<1, 11>>>> }

Payloads == {NULL, Rows("A"), Rows("B")}
TTLs == {SHORT_TTL, DEFAULT_TTL}

(***************************************************************************)
(* queryCache is the Map in insertion order: a sequence of entries.        *)
(***************************************************************************)
IndexOfKey(cache, k) ==
  IF \E i \in 1..Len(cache) : cache[i].key = k
  THEN CHOOSE i \in 1..Len(cache) : cache[i].key = k
  ELSE 0

HasKey(cache, k) == IndexOfKey(cache, k) # 0

MapDelete(cache, k) ==
  SelectSeq(cache, LAMBDA e : e.key # k)

\* Map.set keeps the position of a key that is already present.
MapSet(cache, entry) ==
  IF HasKey(cache, entry.key)
  THEN [i \in 1..Len(cache) |->
          IF cache[i].key = entry.key THEN entry ELSE cache[i]]
  ELSE Append(cache, entry)

Expired(entry, t) == (t - entry.timestamp) > entry.ttl

\* getCached without the expiry test.
getCachedValueIgnoringTtl(cache, k, t) ==
  IF ~HasKey(cache, k) THEN NULL
  ELSE cache[IndexOfKey(cache, k)].data

\* getCached: the value returned (null on a miss or an expired entry).
getCachedValue(cache, k, t) ==
  IF ~HasKey(cache, k) THEN NULL
  ELSE IF Expired(cache[IndexOfKey(cache, k)], t) THEN NULL
  ELSE cache[IndexOfKey(cache, k)].data

\* getCached: the cache it leaves behind (an expired entry is deleted).
getCachedCache(cache, k, t) ==
  IF ~HasKey(cache, k) THEN cache
  ELSE IF Expired(cache[IndexOfKey(cache, k)], t) THEN MapDelete(cache, k)
  ELSE cache

\* setCache: evict the first key when full, then Map.set.
setCache(cache, k, data, ttl, t) ==
  LET room == IF Len(cache) >= MAX_SIZE THEN Tail(cache) ELSE cache
  IN MapSet(room, [key |-> k, data |-> data, timestamp |-> t, ttl |-> ttl])

(***************************************************************************)
(* withCache invocations.  Each slot is one asynchronous call; "awaiting"  *)
(* is the suspension at `await requestFn()`.                               *)
(***************************************************************************)
Calls == {"first", "second"}

IdleCall == [pc |-> "idle"]

\* withCache up to the await: key, cache lookup, hit or producer invocation.
withCacheStart(cache, k, ttl, skipCache, producer, t) ==
  LET cached == getCachedValue(cache, k, t)
  IN IF ~skipCache /\ Truthy(cached)
     THEN [call |-> [pc |-> "returned", data |-> cached, cached |-> TRUE,
                     cacheKey |-> k],
           cache |-> getCachedCache(cache, k, t)]
     ELSE [call |-> [pc |-> "awaiting", key |-> k, ttl |-> ttl,
                     producer |-> producer],
           cache |-> IF skipCache THEN cache ELSE getCachedCache(cache, k, t)]

\* withCache after the await: store the result and return it.
withCacheFinish(cache, call, data, t) ==
  [call |-> [pc |-> "returned", data |-> data, cached |-> FALSE,
             cacheKey |-> call.key],
   cache |-> setCache(cache, call.key, data, call.ttl, t)]

Tick ==
  /\ now < MaxTime
  /\ now' = now + 1
  /\ UNCHANGED <<queryCache, calls, getResult, requestCount, requestWindow,
                 retry, pg, tool, strCheck, valCheck,
                 dedup,
                 trend,
                 timeWindow,
                 geoCache, geo,
                 reliable,
                 keyed>>

WithCacheBegin(c, endpoint, params, ttl, skipCache) ==
  /\ calls[c].pc # "awaiting"
  /\ LET r == withCacheStart(queryCache, getCacheKey(endpoint, params), ttl,
                             skipCache, "caller", now)
     IN /\ calls' = [calls EXCEPT ![c] = r.call]
        /\ queryCache' = r.cache
  /\ UNCHANGED <<now, getResult, requestCount, requestWindow, retry, pg,
                 tool, strCheck, valCheck,
                 dedup,
                 trend,
                 timeWindow,
                 geoCache, geo,
                 reliable,
                 keyed>>

\* withCache called with params that are null or undefined: Object.keys
\* in getCacheKey throws a TypeError before the cache is read and before
\* requestFn is invoked, whatever skipCache is; the promise rejects.
WithCacheBeginNullish(c, endpoint, params, ttl, skipCache) ==
  /\ calls[c].pc # "awaiting"
  /\ params \in {NULL, UNDEF}
  /\ calls' = [calls EXCEPT ![c] = [pc |-> "threw", error |-> "TypeError",
                                    params |-> params]]
  /\ UNCHANGED <<now, queryCache, getResult, requestCount, requestWindow,
                 retry, pg, tool, strCheck, valCheck, dedup,
                 trend,
                 timeWindow,
                 geoCache, geo,
                 reliable,
                 keyed>>

ProducerReturns(c, data) ==
  /\ calls[c].pc = "awaiting"
  /\ calls[c].producer = "caller"
  /\ LET r == withCacheFinish(queryCache, calls[c], data, now)
     IN /\ calls' = [calls EXCEPT ![c] = r.call]
        /\ queryCache' = r.cache
  /\ UNCHANGED <<now, getResult, requestCount, requestWindow, retry, pg,
                 tool, strCheck, valCheck,
                 dedup,
                 trend,
                 timeWindow,
                 geoCache, geo,
                 reliable,
                 keyed>>

\* The producer rejects: withCache rejects without touching the cache.
ProducerThrows(c) ==
  /\ calls[c].pc = "awaiting"
  /\ calls[c].producer = "caller"
  /\ calls' = [calls EXCEPT ![c] = [pc |-> "threw"]]
  /\ UNCHANGED <<now, queryCache, getResult, requestCount, requestWindow,
                 retry, pg, tool, strCheck, valCheck,
                 dedup,
                 trend,
                 timeWindow,
                 geoCache, geo,
                 reliable,
                 keyed>>

\* Direct uses of the exported cache primitives.
GetCached(k) ==
  /\ getResult' = getCachedValue(queryCache, k, now)
  /\ queryCache' = getCachedCache(queryCache, k, now)
  /\ UNCHANGED <<now, calls, requestCount, requestWindow, retry, pg, tool,
                 strCheck, valCheck,
                 dedup,
                 trend,
                 timeWindow,
                 geoCache, geo,
                 reliable,
                 keyed>>

SetCache(k, data, ttl) ==
  /\ queryCache' = setCache(queryCache, k, data, ttl, now)
  /\ UNCHANGED <<now, calls, getResult, requestCount, requestWindow, retry,
                 pg, tool, strCheck, valCheck,
                 dedup,
                 trend,
                 timeWindow,
                 geoCache, geo,
                 reliable,
                 keyed>>

ClearCache ==
  /\ queryCache' = <<>>
  /\ UNCHANGED <<now, calls, getResult, requestCount, requestWindow, retry,
                 pg, tool, strCheck, valCheck,
                 dedup,
                 trend,
                 timeWindow,
                 geoCache, geo,
                 reliable,
                 keyed>>

(***************************************************************************)
(* Request tracking and retry                                              *)
(***************************************************************************)
REQUEST_WINDOW == 1

RETRY_CONFIG == [max_attempts |-> 3, base_delay |-> 1000, max_delay |-> 30000,
                 exponential_base |-> 2, jitter_percent |-> 10]

\* trackRequest: reset the counter when the window has elapsed, then count.
trackRequest(count, window, t) ==
  IF t - window > REQUEST_WINDOW
  THEN [count |-> 1, window |-> t]
  ELSE [count |-> count + 1, window |-> window]

\* The counter is capped: a request is only started while there is room.
CanTrack == requestCount < MaxRequestCount \/ now - requestWindow > REQUEST_WINDOW

\* HTTP status carried by a thrown error; 0 stands for an error without a
\* response (error.response?.status undefined).
Statuses == {0, 400, 429, 499, 500, 503}

RECURSIVE Pow(_, _)
Pow(b, n) == IF n = 0 THEN 1 ELSE b * Pow(b, n - 1)

\* `status && status >= 400 && status < 500 && status !== 429`
FatalStatusNo429Exception(status) ==
  status # 0 /\ status >= 400 /\ status < 500

FatalStatusOffByOne(status) ==
  status # 0 /\ status > 400 /\ status < 500 /\ status # 429

isFatalStatus(status) ==
  status # 0 /\ status >= 400 /\ status < 500 /\ status # 429

\* Values of (Math.random() - 0.5) * 2 in tenths; 1.0 itself is never drawn.
JitterDraws == {-10, 0, 9}

retryDelay(attempt, baseDelay, maxDelay, draw) ==
  LET exponentialDelay ==
        Min(baseDelay * Pow(RETRY_CONFIG.exponential_base, attempt), maxDelay)
      jitterAmount ==
        (exponentialDelay * RETRY_CONFIG.jitter_percent * draw) \div 1000
  IN exponentialDelay + jitterAmount

IdleRetry ==
  [pc |-> "idle", attempt |-> 0, maxAttempts |-> 0, maxDelay |-> 0,
   lastError |-> UNDEF, delay |-> 0, result |-> UNDEF, thrown |-> UNDEF,
   invocations |-> 0, waits |-> 0, outcomes |-> <<>>]

\* Entry of withRetry up to the first await.  The loop body is not entered
\* when maxAttempts is not positive, and `throw lastError` is reached.
retryStart(maxAttempts, maxDelay) ==
  IF 0 < maxAttempts
  THEN [IdleRetry EXCEPT !.pc = "calling", !.maxAttempts = maxAttempts,
                         !.maxDelay = maxDelay, !.invocations = 1]
  ELSE [IdleRetry EXCEPT !.pc = "threw", !.maxAttempts = maxAttempts,
                         !.maxDelay = maxDelay, !.thrown = UNDEF]

\* `return result`
retryOnSuccess(r, value) ==
  [r EXCEPT !.pc = "returned", !.result = value,
            !.outcomes = Append(@, [ok |-> TRUE, value |-> value])]

\* The catch block.
retryOnError(r, status, draw) ==
  LET error == [status |-> status, raisedAt |-> r.attempt]
      failed == [r EXCEPT !.lastError = error,
                          !.outcomes = Append(@, [ok |-> FALSE,
                                                  status |-> status])]
  IN IF isFatalStatus(status)
     THEN [failed EXCEPT !.pc = "threw", !.thrown = error]
     ELSE IF r.attempt = r.maxAttempts - 1
     THEN [failed EXCEPT !.pc = "threw", !.thrown = error]
     ELSE [failed EXCEPT !.pc = "sleeping", !.waits = @ + 1,
                         !.delay = retryDelay(r.attempt,
                                              RETRY_CONFIG.base_delay,
                                              r.maxDelay, draw)]

\* After the sleep: attempt++ and the loop test.
retryAfterSleep(r) ==
  IF r.attempt + 1 < r.maxAttempts
  THEN [r EXCEPT !.pc = "calling", !.attempt = @ + 1, !.invocations = @ + 1]
  ELSE [r EXCEPT !.pc = "threw", !.attempt = @ + 1, !.thrown = r.lastError]

MaxAttemptsOptions == 0..RETRY_CONFIG.max_attempts
MaxDelayOptions == {1500, RETRY_CONFIG.max_delay}

RetryBegin(maxAttempts, maxDelay) ==
  /\ retry.pc \in {"idle", "returned", "threw"}
  /\ CanTrack
  /\ retry' = retryStart(maxAttempts, maxDelay)
  /\ LET tr == IF 0 < maxAttempts
               THEN trackRequest(requestCount, requestWindow, now)
               ELSE [count |-> requestCount, window |-> requestWindow]
     IN requestCount' = tr.count /\ requestWindow' = tr.window
  /\ UNCHANGED <<now, queryCache, calls, getResult, pg, tool, strCheck, valCheck,
                 dedup,
                 trend,
                 timeWindow,
                 geoCache, geo,
                 reliable,
                 keyed>>

AttemptSucceeds(value) ==
  /\ retry.pc = "calling"
  /\ retry' = retryOnSuccess(retry, value)
  /\ UNCHANGED <<now, queryCache, calls, getResult, requestCount,
                 requestWindow, pg, tool, strCheck, valCheck,
                 dedup,
                 trend,
                 timeWindow,
                 geoCache, geo,
                 reliable,
                 keyed>>

AttemptFails(status, draw) ==
  /\ retry.pc = "calling"
  /\ retry' = retryOnError(retry, status, draw)
  /\ UNCHANGED <<now, queryCache, calls, getResult, requestCount,
                 requestWindow, pg, tool, strCheck, valCheck,
                 dedup,
                 trend,
                 timeWindow,
                 geoCache, geo,
                 reliable,
                 keyed>>

Wake ==
  /\ retry.pc = "sleeping"
  /\ CanTrack
  /\ retry' = retryAfterSleep(retry)
  /\ LET tr == IF retry'.pc = "calling"
               THEN trackRequest(requestCount, requestWindow, now)
               ELSE [count |-> requestCount, window |-> requestWindow]
     IN requestCount' = tr.count /\ requestWindow' = tr.window
  /\ UNCHANGED <<now, queryCache, calls, getResult, pg, tool, strCheck, valCheck,
                 dedup,
                 trend,
                 timeWindow,
                 geoCache, geo,
                 reliable,
                 keyed>>

(***************************************************************************)
(* autoPaginate.  pg.requests logs the (offset, limit) of every call of    *)
(* requestFn and pg.responses what each call resolved to.                  *)
(***************************************************************************)
IdlePaginate ==
  [pc |-> "idle", pageSize |-> 0, maxRecords |-> 0, maxPages |-> 0,
   allRecords |-> <<>>, offset |-> 0, page |-> 0, requests |-> <<>>,
   responses |-> <<>>, result |-> <<>>]

\* Array.prototype.slice(0, n) for n >= 0.
slice0(records, n) == SubSeq(records, 1, Min(Len(records), n))

\* `return allRecords.slice(0, maxRecords)`
paginateFinish(p) ==
  [p EXCEPT !.pc = "done", !.result = slice0(p.allRecords, p.maxRecords)]

\* The while test, and the call of requestFn when it passes.
paginateLoop(p) ==
  IF p.page < p.maxPages /\ Len(p.allRecords) < p.maxRecords
  THEN [p EXCEPT !.pc = "fetching",
                 !.requests = Append(@, [offset |-> p.offset,
                                         limit |-> p.pageSize])]
  ELSE paginateFinish(p)

\* The loop body after the await, never stopping on a partial page.
paginateOnPageIgnoringPartial(p, resp) ==
  LET got == [p EXCEPT !.responses = Append(@, resp)] IN
  IF resp.isNull \/ Len(resp.records) = 0
  THEN paginateFinish(got)
  ELSE LET pushed == [got EXCEPT !.allRecords = @ \o resp.records,
                                 !.offset = @ + p.pageSize,
                                 !.page = @ + 1]
       IN IF Len(pushed.allRecords) >= p.maxRecords
          THEN paginateFinish(pushed)
          ELSE paginateLoop(pushed)

\* The loop body after the await.
paginateOnPage(p, resp) ==
  LET got == [p EXCEPT !.responses = Append(@, resp)] IN
  IF resp.isNull \/ Len(resp.records) = 0
  THEN paginateFinish(got)
  ELSE LET pushed == [got EXCEPT !.allRecords = @ \o resp.records,
                                 !.offset = @ + p.pageSize,
                                 !.page = @ + 1]
       IN IF Len(pushed.allRecords) >= p.maxRecords
          THEN paginateFinish(pushed)
          ELSE IF Len(resp.records) < p.pageSize
          THEN paginateFinish(pushed)
          ELSE paginateLoop(pushed)

RecordValues == {"a", "b"}

RECURSIVE SeqsUpTo(_, _)
SeqsUpTo(S, n) ==
  IF n = 0 THEN {<<>>}
  ELSE LET shorter == SeqsUpTo(S, n - 1)
       IN shorter \cup {Append(q, x) : q \in shorter, x \in S}

\* What requestFn can resolve to: null, or a list of any length (the
\* upstream need not honour the limit).
PageResponses ==
  {[isNull |-> TRUE, records |-> <<>>]} \cup
  {[isNull |-> FALSE, records |-> r] : r \in SeqsUpTo(RecordValues, MaxPageLen)}

PaginateBegin(pageSize, maxRecords, maxPages) ==
  /\ pg.pc \in {"idle", "done", "threw"}
  /\ pg' = paginateLoop([IdlePaginate EXCEPT !.pageSize = pageSize,
                                             !.maxRecords = maxRecords,
                                             !.maxPages = maxPages])
  /\ UNCHANGED <<now, queryCache, calls, getResult, requestCount,
                 requestWindow, retry, tool, strCheck, valCheck,
                 dedup,
                 trend,
                 timeWindow,
                 geoCache, geo,
                 reliable,
                 keyed>>

PageReturns(resp) ==
  /\ pg.pc = "fetching"
  /\ pg' = paginateOnPage(pg, resp)
  /\ UNCHANGED <<now, queryCache, calls, getResult, requestCount,
                 requestWindow, retry, tool, strCheck, valCheck,
                 dedup,
                 trend,
                 timeWindow,
                 geoCache, geo,
                 reliable,
                 keyed>>

\* requestFn rejects: autoPaginate has no handler and rejects.
PageThrows ==
  /\ pg.pc = "fetching"
  /\ pg' = [pg EXCEPT !.pc = "threw"]
  /\ UNCHANGED <<now, queryCache, calls, getResult, requestCount,
                 requestWindow, retry, tool, strCheck, valCheck,
                 dedup,
                 trend,
                 timeWindow,
                 geoCache, geo,
                 reliable,
                 keyed>>

(***************************************************************************)
(* Input validation.  A string is a sequence of one-character strings.     *)
(***************************************************************************)
ERROR_TYPES == [INVALID_INPUT |-> "INVALID_INPUT", API_ERROR |-> "API_ERROR",
                VALIDATION_ERROR |-> "VALIDATION_ERROR"]

\* createErrorEnvelope, without the message and guidance texts.
createErrorEnvelope(type, param) ==
  [success |-> FALSE, error |-> [type |-> type, param |-> param]]

\* `...details` inside the error object of createErrorEnvelope: the detail
\* properties come after type and message and win over them.
spreadDetails(envelope, details) ==
  [envelope EXCEPT !.error =
     [k \in DOMAIN details \cup DOMAIN @ |->
        IF k \in DOMAIN details THEN details[k] ELSE @[k]]]

Quote == "'"

\* str.replace("'", "''"): without the g flag only the first quote is doubled.
RECURSIVE escapeFirstQuoteOnly(_)
escapeFirstQuoteOnly(str) ==
  IF str = <<>> THEN <<>>
  ELSE IF Head(str) = Quote THEN <<Quote, Quote>> \o Tail(str)
  ELSE <<Head(str)>> \o escapeFirstQuoteOnly(Tail(str))

\* str.replace(/'/g, "''")
RECURSIVE escapeQuotes(_)
escapeQuotes(str) ==
  IF str = <<>> THEN <<>>
  ELSE IF Head(str) = Quote THEN <<Quote, Quote>> \o escapeQuotes(Tail(str))
  ELSE <<Head(str)>> \o escapeQuotes(Tail(str))

\* The `pattern` option is a RegExp or null.  Two patterns are modelled:
\* none, and /^[^']*$/ written "noQuote".
PatternOptions == {"none", "noQuote"}

patternTest(pattern, str) ==
  IF pattern = "noQuote" THEN \A i \in 1..Len(str) : str[i] # Quote
  ELSE TRUE

validateAndEscapeString(value, maxLength, pattern, required, paramName) ==
  IF value = UNDEF \/ value = NULL \/ value = Str(<<>>)
  THEN IF required
       THEN [valid |-> FALSE,
             error |-> createErrorEnvelope(ERROR_TYPES.INVALID_INPUT,
                                           paramName)]
       ELSE [valid |-> TRUE]
  ELSE LET str == value.s IN
       IF Len(str) > maxLength
       THEN [valid |-> FALSE,
             error |-> createErrorEnvelope(ERROR_TYPES.INVALID_INPUT,
                                           paramName)]
       ELSE IF pattern # "none" /\ ~patternTest(pattern, str)
       THEN [valid |-> FALSE,
             error |-> createErrorEnvelope(ERROR_TYPES.INVALID_INPUT,
                                           paramName)]
       ELSE [valid |-> TRUE, escaped |-> escapeQuotes(str)]

TextChars == {"a", Quote}
TextValues ==
  {UNDEF, NULL} \cup {Str(q) : q \in SeqsUpTo(TextChars, MaxStrLen)}

\* validateAndEscapeString applied to one input.
ValidateString(value, maxLength, pattern, required) ==
  /\ strCheck' = [pc |-> "done", value |-> value, maxLength |-> maxLength,
                  pattern |-> pattern, required |-> required,
                  result |-> validateAndEscapeString(value, maxLength,
                                                     pattern, required,
                                                     "parameter")]
  /\ UNCHANGED <<now, queryCache, calls, getResult, requestCount,
                 requestWindow, retry, pg, tool, valCheck, dedup,
                 trend,
                 timeWindow,
                 geoCache, geo,
                 reliable,
                 keyed>>

(***************************************************************************)
(* The other validators.  String(v) of a number is its decimal digits; of  *)
(* null and undefined the word, kept as a single token.                    *)
(***************************************************************************)
LowerCase == <<"a", "b", "c", "d", "e", "f", "g", "h", "i", "j", "k", "l", "m",
               "n", "o", "p", "q", "r", "s", "t", "u", "v", "w", "x", "y", "z">>
UpperCase == <<"A", "B", "C", "D", "E", "F", "G", "H", "I", "J", "K", "L", "M",
               "N", "O", "P", "Q", "R", "S", "T", "U", "V", "W", "X", "Y", "Z">>

MapChar(c, from, to) ==
  IF \E i \in 1..Len(from) : from[i] = c
  THEN to[CHOOSE i \in 1..Len(from) : from[i] = c]
  ELSE c

RECURSIVE toUpperCase(_)
toUpperCase(str) ==
  IF str = <<>> THEN <<>>
  ELSE <<MapChar(Head(str), LowerCase, UpperCase)>> \o toUpperCase(Tail(str))

RECURSIVE toLowerCase(_)
toLowerCase(str) ==
  IF str = <<>> THEN <<>>
  ELSE <<MapChar(Head(str), UpperCase, LowerCase)>> \o toLowerCase(Tail(str))

RECURSIVE Digits(_)
Digits(n) ==
  IF n < 10 THEN <<ToString(n)>>
  ELSE Digits(n \div 10) \o <<ToString(n % 10)>>

\* value.toString() and template-literal interpolation.
toString(v) ==
  IF IsStr(v) THEN v.s
  ELSE IF IsInt(v) /\ v.n >= 0 THEN Digits(v.n)
  ELSE <<v.t>>

MANHATTAN == <<"M", "A", "N", "H", "A", "T", "T", "A", "N">>
BRONX == <<"B", "R", "O", "N", "X">>
BROOKLYN == <<"B", "R", "O", "O", "K", "L", "Y", "N">>
QUEENS == <<"Q", "U", "E", "E", "N", "S">>
STATEN_ISLAND == <<"S", "T", "A", "T", "E", "N", " ", "I", "S", "L", "A", "N", "D">>

VALID_BOROUGHS ==
  [codes |-> {<<"1">>, <<"2">>, <<"3">>, <<"4">>, <<"5">>},
   names |-> {MANHATTAN, BRONX, BROOKLYN, QUEENS, STATEN_ISLAND},
   mapping |-> (<<"1">> :> MANHATTAN) @@ (<<"2">> :> BRONX)
               @@ (<<"3">> :> BROOKLYN) @@ (<<"4">> :> QUEENS)
               @@ (<<"5">> :> STATEN_ISLAND) @@ (<<"M">> :> MANHATTAN)
               @@ (<<"X">> :> BRONX) @@ (<<"K">> :> BROOKLYN)
               @@ (<<"Q">> :> QUEENS) @@ (<<"R">> :> STATEN_ISLAND)]

validateBorough(borough) ==
  IF ~Truthy(borough) THEN [valid |-> TRUE]
  ELSE LET upper == toUpperCase(toString(borough)) IN
       IF upper \in VALID_BOROUGHS.codes
       THEN [valid |-> TRUE, normalized |-> Str(upper)]
       ELSE IF upper \in VALID_BOROUGHS.names
       THEN [valid |-> TRUE, normalized |-> Str(upper)]
       ELSE IF upper \in DOMAIN VALID_BOROUGHS.mapping
       THEN [valid |-> TRUE,
             normalized |-> Str(VALID_BOROUGHS.mapping[upper])]
       ELSE [valid |-> FALSE,
             error |-> spreadDetails(
                         createErrorEnvelope(ERROR_TYPES.INVALID_INPUT,
                                             "borough"),
                         [provided |-> borough,
                          valid_names |-> VALID_BOROUGHS.names,
                          valid_codes |-> VALID_BOROUGHS.codes])]

validateDays(days, min, max, required) ==
  IF days = UNDEF \/ days = NULL
  THEN IF required
       THEN [valid |-> FALSE,
             error |-> createErrorEnvelope(ERROR_TYPES.INVALID_INPUT, "days")]
       ELSE [valid |-> TRUE]
  ELSE IF ~IsInt(days)
  THEN [valid |-> FALSE,
        error |-> createErrorEnvelope(ERROR_TYPES.INVALID_INPUT, "days")]
  ELSE IF days.n < min \/ days.n > max
  THEN [valid |-> FALSE,
        error |-> createErrorEnvelope(ERROR_TYPES.INVALID_INPUT, "days")]
  ELSE [valid |-> TRUE]

\* validValues is the array of allowed strings, in order.
validateEnum(value, validValues, paramName, required) ==
  IF value = UNDEF \/ value = NULL \/ value = Str(<<>>)
  THEN IF required
       THEN [valid |-> FALSE,
             error |-> createErrorEnvelope(ERROR_TYPES.INVALID_INPUT,
                                           paramName)]
       ELSE [valid |-> TRUE]
  ELSE LET normalized == toLowerCase(toString(value))
           validNormalized ==
             [i \in 1..Len(validValues) |-> toLowerCase(validValues[i])]
       IN IF ~\E i \in 1..Len(validValues) : validNormalized[i] = normalized
          THEN [valid |-> FALSE,
                error |-> createErrorEnvelope(ERROR_TYPES.INVALID_INPUT,
                                              paramName)]
          ELSE LET originalIndex ==
                     CHOOSE i \in 1..Len(validValues) :
                       /\ validNormalized[i] = normalized
                       /\ \A j \in 1..(i - 1) : validNormalized[j] # normalized
               IN [valid |-> TRUE,
                   normalized |-> Str(validValues[originalIndex])]

validateLimit(limit, min, max, defaultValue) ==
  IF limit = UNDEF \/ limit = NULL
  THEN [valid |-> TRUE, normalized |-> Num(defaultValue)]
  ELSE IF ~IsInt(limit)
  THEN [valid |-> FALSE,
        error |-> createErrorEnvelope(ERROR_TYPES.INVALID_INPUT, "limit")]
  ELSE IF limit.n < min \/ limit.n > max
  THEN [valid |-> FALSE,
        error |-> createErrorEnvelope(ERROR_TYPES.INVALID_INPUT, "limit")]
  ELSE [valid |-> TRUE, normalized |-> limit]

\* Date strings are written as one token; these are the ones Date can parse,
\* with the day they denote.  Every other string gives an Invalid Date.
DateDays == (<<"2025-01-01">> :> 1) @@ (<<"2025-01-15">> :> 15)

InvalidDate == [t |-> "date", valid |-> FALSE, day |-> 0]

\* new Date(value)
newDate(v) ==
  IF IsStr(v) /\ v.s \in DOMAIN DateDays
  THEN [t |-> "date", valid |-> TRUE, day |-> DateDays[v.s]]
  ELSE IF IsInt(v) THEN [t |-> "date", valid |-> TRUE, day |-> 0]
  ELSE InvalidDate

validateDate(date, paramName, required) ==
  IF ~Truthy(date)
  THEN IF required
       THEN [valid |-> FALSE,
             error |-> createErrorEnvelope(ERROR_TYPES.INVALID_INPUT,
                                           paramName)]
       ELSE [valid |-> TRUE]
  ELSE LET parsed == newDate(date) IN
       IF ~parsed.valid
       THEN [valid |-> FALSE,
             error |-> createErrorEnvelope(ERROR_TYPES.INVALID_INPUT,
                                           paramName)]
       ELSE [valid |-> TRUE, parsed |-> parsed]

\* The value batchValidate copies from one result: normalized, else
\* escaped, else parsed; undefined when the result carries none of them.
ResultValue(result) ==
  IF "normalized" \in DOMAIN result THEN result.normalized
  ELSE IF "escaped" \in DOMAIN result THEN Str(result.escaped)
  ELSE IF "parsed" \in DOMAIN result THEN result.parsed
  ELSE UNDEF

\* batchValidate that does not look at the result for `days`.
batchValidateSkippingDays(validations) ==
  LET failed == {i \in 1..Len(validations) :
                   /\ ~validations[i][2].valid
                   /\ validations[i][1] # "days"}
      valued == {i \in 1..Len(validations) :
                   /\ validations[i][2].valid
                   /\ ResultValue(validations[i][2]) # UNDEF}
  IN IF failed # {}
     THEN [valid |-> FALSE,
           error |-> createErrorEnvelope(ERROR_TYPES.VALIDATION_ERROR,
                                         {validations[i][1] : i \in failed})]
     ELSE [valid |-> TRUE,
           normalized |->
             [p \in {validations[i][1] : i \in valued} |->
                ResultValue(validations[CHOOSE i \in valued :
                                          validations[i][1] = p][2])]]

\* validations is Object.entries of the argument: <<param, result>> pairs.
\* The normalized object is a function on the parameters that got a value.
batchValidate(validations) ==
  LET failed == {i \in 1..Len(validations) : ~validations[i][2].valid}
      valued == {i \in 1..Len(validations) :
                   /\ validations[i][2].valid
                   /\ ResultValue(validations[i][2]) # UNDEF}
  IN IF failed # {}
     THEN [valid |-> FALSE,
           error |-> createErrorEnvelope(ERROR_TYPES.VALIDATION_ERROR,
                                         {validations[i][1] : i \in failed})]
     ELSE [valid |-> TRUE,
           normalized |->
             [p \in {validations[i][1] : i \in valued} |->
                ResultValue(validations[CHOOSE i \in valued :
                                          validations[i][1] = p][2])]]

\* normalized.name, undefined when the property is absent.
Prop(object, name) ==
  IF name \in DOMAIN object THEN object[name] ELSE UNDEF

(***************************************************************************)
(* The validators applied to one input each.  `valCheck` keeps the call:   *)
(* the function, its argument, its options and the object it returned.     *)
(***************************************************************************)
DAY == <<"d", "a", "y">>
WEEK == <<"w", "e", "e", "k">>
MONTH == <<"m", "o", "n", "t", "h">>

NEW_JERSEY == <<"N", "E", "W", " ", "J", "E", "R", "S", "E", "Y">>

BoroughTexts ==
  LET upper == VALID_BOROUGHS.names \cup DOMAIN VALID_BOROUGHS.mapping
                 \cup {<<"B", "X">>, <<"M", "N">>, <<"B", "K">>, <<"Q", "N">>,
                       <<"S", "I">>, <<"B">>, <<"S">>, <<"0">>, <<"6">>,
                       <<"1", "2">>, <<"X", "X">>, BRONX \o <<" ">>,
                       NEW_JERSEY}
  IN upper \cup {toLowerCase(u) : u \in upper}
       \cup {<<"B", "r", "o", "n", "x">>, <<"B", "x">>}

BoroughValues ==
  {UNDEF, NULL, Str(<<>>), Num(0), Num(1), Num(5), Num(6)}
    \cup {Str(u) : u \in BoroughTexts}

DaysValues ==
  {UNDEF, NULL, Str(<<>>), Str(<<"7">>), Num(0), Num(1), Num(30), Num(90),
   Num(91), Num(365), Num(366), Frac(1)}

LimitValues ==
  {UNDEF, NULL, Str(<<>>), Str(<<"7">>), Num(0), Num(1), Num(100), Num(1000),
   Num(1001), Frac(1)}

EnumValues ==
  {UNDEF, NULL, Str(<<>>), Str(DAY), Str(toUpperCase(WEEK)), Str(MONTH),
   Str(<<"y", "e", "a", "r">>), Num(1)}

DateValues ==
  {UNDEF, NULL, Str(<<>>), Str(<<"2025-01-01">>), Str(<<"2025-01-15">>),
   Str(<<"soon">>), Num(0), Num(1)}

ValidatorCall(fn, value, options, result) ==
  [pc |-> "done", fn |-> fn, value |-> value, options |-> options,
   result |-> result]

ValidateBorough(borough) ==
  /\ valCheck' = ValidatorCall("validateBorough", borough,
                               [required |-> FALSE],
                               validateBorough(borough))
  /\ UNCHANGED <<now, queryCache, calls, getResult, requestCount,
                 requestWindow, retry, pg, tool, strCheck, dedup,
                 trend,
                 timeWindow,
                 geoCache, geo,
                 reliable,
                 keyed>>

ValidateDays(days, min, max, required) ==
  /\ valCheck' = ValidatorCall("validateDays", days,
                               [min |-> min, max |-> max,
                                required |-> required],
                               validateDays(days, min, max, required))
  /\ UNCHANGED <<now, queryCache, calls, getResult, requestCount,
                 requestWindow, retry, pg, tool, strCheck, dedup,
                 trend,
                 timeWindow,
                 geoCache, geo,
                 reliable,
                 keyed>>

ValidateLimit(limit, min, max, defaultValue) ==
  /\ valCheck' = ValidatorCall("validateLimit", limit,
                               [min |-> min, max |-> max,
                                defaultValue |-> defaultValue,
                                required |-> FALSE],
                               validateLimit(limit, min, max, defaultValue))
  /\ UNCHANGED <<now, queryCache, calls, getResult, requestCount,
                 requestWindow, retry, pg, tool, strCheck, dedup,
                 trend,
                 timeWindow,
                 geoCache, geo,
                 reliable,
                 keyed>>

ValidateEnum(value, validValues, required) ==
  /\ valCheck' = ValidatorCall("validateEnum", value,
                               [validValues |-> validValues,
                                required |-> required],
                               validateEnum(value, validValues, "parameter",
                                            required))
  /\ UNCHANGED <<now, queryCache, calls, getResult, requestCount,
                 requestWindow, retry, pg, tool, strCheck, dedup,
                 trend,
                 timeWindow,
                 geoCache, geo,
                 reliable,
                 keyed>>

ValidateDate(date, required) ==
  /\ valCheck' = ValidatorCall("validateDate", date,
                               [required |-> required],
                               validateDate(date, "date", required))
  /\ UNCHANGED <<now, queryCache, calls, getResult, requestCount,
                 requestWindow, retry, pg, tool, strCheck, dedup,
                 trend,
                 timeWindow,
                 geoCache, geo,
                 reliable,
                 keyed>>

(***************************************************************************)
(* Time windows.  A window is kept as its type and the number of days its  *)
(* start lies before today; `threw` tells that the function threw.         *)
(***************************************************************************)
getTimeWindow(windowType) ==
  CASE windowType = "90d" ->
         [threw |-> FALSE, type |-> windowType, lookback |-> 90]
    [] windowType \in {"12m", "365d"} ->
         [threw |-> FALSE, type |-> windowType, lookback |-> 365]
    [] OTHER -> [threw |-> TRUE, type |-> windowType, lookback |-> 0]

getCustomWindow(days) ==
  IF ~IsInt(days) \/ days.n <= 0
  THEN [threw |-> TRUE, type |-> "custom", lookback |-> 0]
  ELSE [threw |-> FALSE, type |-> "custom", lookback |-> days.n]

(***************************************************************************)
(* Tool operations.  `tool` is the one invocation in progress: its params  *)
(* bag (an absent property is undefined), the queries sent upstream, the   *)
(* responses received, and how the returned promise settled.  A $where     *)
(* filter is the sequence of its conditions (joined by ' AND ' in the      *)
(* source); a condition keeps the template text in front of the value, the *)
(* parameter the value came from and the interpolated text.                *)
(***************************************************************************)
Default(v, d) == IF v = UNDEF THEN d ELSE v

Condition(column, param, text) ==
  [column |-> column, param |-> param, text |-> text]

ToolCall(name, params) ==
  [pc |-> "awaiting", name |-> name, params |-> params, sent |-> <<>>,
   pending |-> 0, responses |-> <<>>, viaCache |-> FALSE,
   outcome |-> "pending", envelope |-> UNDEF]

Request(t, queries) == [t EXCEPT !.sent = queries, !.pending = Len(queries)]

\* The promise of the tool resolves with a value / rejects with an error.
Resolve(t, envelope) ==
  [t EXCEPT !.pc = "done", !.outcome = "resolved", !.envelope = envelope]

Reject(t, error) ==
  [t EXCEPT !.pc = "done", !.outcome = "rejected", !.envelope = error]

createSuccessEnvelope(source, window, records, meta) ==
  [success |-> TRUE, source |-> source, window |-> window,
   records |-> records, meta |-> meta]

WindowConditions(column, window) ==
  << Condition(column, "window.start",
               <<window.type>> \o Digits(window.lookback)),
     Condition(column, "window.end",
               IF "until" \in DOMAIN window THEN Digits(window.until)
               ELSE <<"today">>) >>

\* searchSpending up to `await axios.get`: nothing is validated.
searchSpendingStart(params) ==
  LET limit == Default(params.limit, Num(100))
      whereConditions ==
        (IF Truthy(params.agency)
         THEN <<Condition("agency_name LIKE", "agency",
                          toString(params.agency))>>
         ELSE <<>>)
        \o (IF Truthy(params.min_amount)
            THEN <<Condition("current_modified_budget_amount >=",
                             "min_amount", toString(params.min_amount))>>
            ELSE <<>>)
        \o (IF Truthy(params.max_amount)
            THEN <<Condition("current_modified_budget_amount <=",
                             "max_amount", toString(params.max_amount))>>
            ELSE <<>>)
        \o (IF Truthy(params.fiscal_year)
            THEN <<Condition("fiscal_year=", "fiscal_year",
                             toString(params.fiscal_year))>>
            ELSE <<>>)
  IN Request(ToolCall("searchSpending", params),
             <<[where |-> whereConditions, limit |-> limit]>>)

\* analyzeTrends up to `await axios.get`.  The window is computed from the
\* raw `days` after validation and outside the try block.
analyzeTrendsStart(params) ==
  LET group_by == Default(params.group_by, Str(DAY))
      days == Default(params.days, Num(90))
      call == ToolCall("analyzeTrends", params)
      validation ==
        batchValidate(<<
          <<"group_by", validateEnum(group_by, <<DAY, WEEK, MONTH>>,
                                     "group_by", FALSE)>>,
          <<"days", validateDays(days, 1, 365, FALSE)>>,
          <<"borough", validateBorough(params.borough)>>,
          <<"complaint_type",
            validateAndEscapeString(params.complaint_type, 200, "none",
                                    FALSE, "complaint_type")>> >>)
  IN IF ~validation.valid THEN Resolve(call, validation.error)
     ELSE
       LET normalized == validation.normalized
           window == IF days = Num(90) THEN getTimeWindow("90d")
                     ELSE IF days = Num(365) THEN getTimeWindow("12m")
                     ELSE getCustomWindow(days)
           whereConditions ==
             WindowConditions("created_date", window)
             \o (IF Truthy(Prop(normalized, "complaint_type"))
                 THEN <<Condition("complaint_type =", "complaint_type",
                                  normalized["complaint_type"].s)>>
                 ELSE <<>>)
             \o (IF Truthy(Prop(normalized, "borough"))
                 THEN <<Condition("borough =", "borough",
                                  normalized["borough"].s)>>
                 ELSE <<>>)
       IN IF window.threw
          THEN Reject(call, [thrown |-> "Days must be a positive integer"])
          ELSE Request(call, <<[where |-> whereConditions, limit |-> Num(5000)]>>)

\* `normalized.borough === 'MANHATTAN' ? a : ... : normalized.borough`
BoroughTo(borough, ids) ==
  CASE borough = MANHATTAN -> <<ids[1]>>
    [] borough = BRONX -> <<ids[2]>>
    [] borough = BROOKLYN -> <<ids[3]>>
    [] borough = QUEENS -> <<ids[4]>>
    [] borough = STATEN_ISLAND -> <<ids[5]>>
    [] OTHER -> borough

\* searchViolations up to the first await: one request, or the two
\* parallel requests of the aggregated form.  The window is computed from
\* the raw `days` after validation and outside the try block.
searchViolationsStart(params) ==
  LET days == Default(params.days, Num(365))
      limit == Default(params.limit, Num(100))
      aggregated == Default(params.aggregated, Bool(TRUE))
      call == ToolCall("searchViolations", params)
      validation ==
        batchValidate(<<
          <<"borough", validateBorough(params.borough)>>,
          <<"status", validateAndEscapeString(params.status, 50, "none",
                                              FALSE, "status")>>,
          <<"days", validateDays(days, 1, 365, FALSE)>>,
          <<"limit", validateLimit(limit, 1, 10000, 100)>> >>)
  IN IF ~validation.valid THEN Resolve(call, validation.error)
     ELSE
       LET normalized == validation.normalized
           window == IF days = Num(365) THEN getTimeWindow("12m")
                     ELSE IF days = Num(90) THEN getTimeWindow("90d")
                     ELSE getCustomWindow(days)
           whereConditions ==
             WindowConditions("inspectiondate", window)
             \o (IF Truthy(Prop(normalized, "borough"))
                 THEN <<Condition("boroid =", "borough",
                                  BoroughTo(normalized["borough"].s,
                                            <<"1", "2", "3", "4", "5">>))>>
                 ELSE <<>>)
             \o (IF Truthy(Prop(normalized, "status"))
                 THEN <<Condition("violationstatus =", "status",
                                  normalized["status"].s)>>
                 ELSE <<>>)
       IN IF window.threw
          THEN Reject(call, [thrown |-> "Days must be a positive integer"])
          ELSE IF Truthy(aggregated)
          THEN Request(call, <<[where |-> whereConditions, limit |-> Num(10)],
                               [where |-> whereConditions, limit |-> Num(10)]>>)
          ELSE Request(call, <<[where |-> whereConditions,
                                limit |-> normalized["limit"]]>>)

\* searchStreetClosures up to `await axios.get`; everything after the
\* validation is inside the try block.
searchStreetClosuresStart(params) ==
  LET limit == Default(params.limit, Num(1000))
      active_only == Default(params.active_only, Bool(TRUE))
      call == ToolCall("searchStreetClosures", params)
      validation ==
        batchValidate(<<
          <<"borough", validateBorough(params.borough)>>,
          <<"work_type", validateAndEscapeString(params.work_type, 100,
                                                 "none", FALSE, "work_type")>>,
          <<"limit", validateLimit(limit, 1, 5000, 1000)>> >>)
  IN IF ~validation.valid THEN Resolve(call, validation.error)
     ELSE
       LET normalized == validation.normalized
           whereConditions ==
             (IF Truthy(Prop(normalized, "borough"))
              THEN <<Condition("borough_code =", "borough",
                               BoroughTo(normalized["borough"].s,
                                         <<"M", "X", "B", "Q", "S">>))>>
              ELSE <<>>)
             \o (IF Truthy(Prop(normalized, "work_type"))
                 THEN <<Condition("purpose LIKE", "work_type",
                                  normalized["work_type"].s)>>
                 ELSE <<>>)
             \o (IF Truthy(active_only)
                 THEN <<Condition("work_start_date <=", "today", <<"today">>),
                        Condition("work_end_date >=", "today", <<"today">>)>>
                 ELSE <<>>)
       IN Request(call, <<[where |-> whereConditions,
                           limit |-> normalized["limit"]]>>)

\* searchComplaints up to the `try`: validation, window and query.  The
\* request itself goes through withCache and withRetry.
searchComplaintsStart(params) ==
  LET limit == Default(params.limit, Num(100))
      use_cache == Default(params.use_cache, Bool(TRUE))
      skip_cache == Default(params.skip_cache, Bool(FALSE))
      call == ToolCall("searchComplaints", params)
      validation ==
        batchValidate(<<
          <<"complaint_type",
            validateAndEscapeString(params.complaint_type, 200, "none",
                                    FALSE, "complaint_type")>>,
          <<"borough", validateBorough(params.borough)>>,
          <<"limit", validateLimit(limit, 1, 10000, 100)>>,
          <<"start_date", validateDate(params.start_date, "start_date",
                                       FALSE)>>,
          <<"end_date", validateDate(params.end_date, "end_date", FALSE)>>,
          <<"days", validateDays(params.days, 1, 365, FALSE)>> >>)
  IN IF ~validation.valid THEN Resolve(call, validation.error)
     ELSE
       LET normalized == validation.normalized
           window ==
             IF Truthy(params.start_date) /\ Truthy(params.end_date)
             THEN [threw |-> FALSE, type |-> "custom",
                   lookback |-> newDate(params.start_date).day,
                   until |-> newDate(params.end_date).day]
             ELSE IF Truthy(params.days)
             THEN IF params.days = Num(90) THEN getTimeWindow("90d")
                  ELSE IF params.days = Num(365) THEN getTimeWindow("12m")
                  ELSE getCustomWindow(params.days)
             ELSE getTimeWindow("90d")
           whereConditions ==
             WindowConditions("created_date", window)
             \o (IF Truthy(Prop(normalized, "complaint_type"))
                 THEN <<Condition("complaint_type =", "complaint_type",
                                  normalized["complaint_type"].s)>>
                 ELSE <<>>)
             \o (IF Truthy(Prop(normalized, "borough"))
                 THEN <<Condition("borough =", "borough",
                                  normalized["borough"].s)>>
                 ELSE <<>>)
       IN IF window.threw
          THEN Reject(call, [thrown |-> "Days must be a positive integer"])
          ELSE [Request(call, <<[where |-> whereConditions,
                                 limit |-> normalized["limit"]]>>)
                  EXCEPT !.viaCache = Truthy(use_cache) /\ ~Truthy(skip_cache)]

\* response.data of the street-closure dataset with its rows spelled out.
Closures(items) == [t |-> "array", id |-> "closures", items |-> items]

\* The template literal
\* `${closure.segmentid}|${closure.work_start_date}|${closure.work_end_date}`.
closureKey(closure) ==
  toString(closure.segmentid) \o <<"|">> \o toString(closure.work_start_date)
    \o <<"|">> \o toString(closure.work_end_date)

\* purposes.join('; ')
RECURSIVE join(_)
join(purposes) ==
  IF purposes = <<>> THEN <<>>
  ELSE IF Len(purposes) = 1 THEN purposes[1].s
  ELSE purposes[1].s \o <<";", " ">> \o join(Tail(purposes))

\* One step of the forEach over response.data; closureMap is the sequence
\* of the Map's entries in insertion order.
closureStep(closureMap, closure) ==
  LET key == closureKey(closure) IN
  IF \E i \in 1..Len(closureMap) : closureMap[i].key = key
  THEN [i \in 1..Len(closureMap) |->
          LET existing == closureMap[i].value IN
          IF closureMap[i].key = key /\ Truthy(closure.purpose)
               /\ ~\E h \in 1..Len(existing.purposes) :
                     existing.purposes[h] = closure.purpose
          THEN [key |-> key,
                value |-> [existing EXCEPT
                             !.purposes = Append(@, closure.purpose),
                             !.purpose_merged =
                               Str(join(Append(existing.purposes,
                                               closure.purpose)))]]
          ELSE closureMap[i]]
  ELSE Append(closureMap,
              [key |-> key,
               value |-> [segment_id |-> closure.segmentid,
                          work_start_date |-> closure.work_start_date,
                          work_end_date |-> closure.work_end_date,
                          purposes |-> IF Truthy(closure.purpose)
                                       THEN <<closure.purpose>> ELSE <<>>,
                          purpose_merged |->
                            IF Truthy(closure.purpose) THEN closure.purpose
                            ELSE Str(<<"Unknown">>)]])

RECURSIVE closureLoop(_, _)
closureLoop(closureMap, data) ==
  IF data = <<>> THEN closureMap
  ELSE closureLoop(closureStep(closureMap, Head(data)), Tail(data))

\* Array.from(closureMap.values()).  The closures of the model all end on
\* the same day or carry no end date, so the comparator of the sort that
\* follows gives 0 (or NaN, read as 0) for every pair and the order stays.
dedupedClosures(data) ==
  LET closureMap == closureLoop(<<>>, data)
  IN [i \in 1..Len(closureMap) |-> closureMap[i].value]

\* The success envelope of searchStreetClosures, with the counts of its
\* meta block.
closuresEnvelope(t, data) ==
  LET deduped == dedupedClosures(data)
      totalClosures == Len(deduped)
      rawCount == Len(data)
  IN createSuccessEnvelope(t.name, t.sent, deduped,
                           [total_closures |-> totalClosures,
                            raw_api_count |-> rawCount,
                            duplicates_removed |-> rawCount - totalClosures])

ClosureRows ==
  {[segmentid |-> segmentid, work_start_date |-> dates[1],
    work_end_date |-> dates[2], purpose |-> purpose] :
     segmentid \in {UNDEF, NULL, Str(<<"null">>)},
     dates \in {<<UNDEF, UNDEF>>,
                <<Str(<<"2025-01-01">>), Str(<<"2025-01-15">>)>>},
     purpose \in {UNDEF, Str(<<"a">>), Str(<<"b">>)}}

\* The catch block of a tool: searchSpending rethrows, the others return
\* an API_ERROR envelope.  status 0 stands for an error without a response.
toolCatch(t, status) ==
  IF t.name = "searchSpending"
  THEN Reject(t, [thrown |-> "Failed to search spending", status |-> status])
  ELSE Resolve(t, createErrorEnvelope(ERROR_TYPES.API_ERROR, status))

\* The code after the await: the rows are shaped into the result; shaping
\* data that is not an array throws inside the try block.
toolShape(t, rows, cached) ==
  IF \E i \in 1..Len(rows) : rows[i].t # "array" THEN toolCatch(t, 0)
  ELSE IF t.name = "searchStreetClosures" /\ "items" \in DOMAIN rows[1]
  THEN Resolve(t, closuresEnvelope(t, rows[1].items))
  ELSE Resolve(t, createSuccessEnvelope(t.name, t.sent, rows,
                                        [cached |-> cached]))

ToolIdle == tool.pc \in {"idle", "done"}

SearchSpending(params) ==
  /\ ToolIdle
  /\ tool' = searchSpendingStart(params)
  /\ UNCHANGED <<now, queryCache, calls, getResult, requestCount,
                 requestWindow, retry, pg, strCheck, valCheck,
                 dedup,
                 trend,
                 timeWindow,
                 geoCache, geo,
                 reliable,
                 keyed>>

AnalyzeTrends(params) ==
  /\ ToolIdle
  /\ tool' = analyzeTrendsStart(params)
  /\ UNCHANGED <<now, queryCache, calls, getResult, requestCount,
                 requestWindow, retry, pg, strCheck, valCheck,
                 dedup,
                 trend,
                 timeWindow,
                 geoCache, geo,
                 reliable,
                 keyed>>

SearchViolations(params) ==
  /\ ToolIdle
  /\ tool' = searchViolationsStart(params)
  /\ UNCHANGED <<now, queryCache, calls, getResult, requestCount,
                 requestWindow, retry, pg, strCheck, valCheck,
                 dedup,
                 trend,
                 timeWindow,
                 geoCache, geo,
                 reliable,
                 keyed>>

SearchStreetClosures(params) ==
  /\ ToolIdle
  /\ tool' = searchStreetClosuresStart(params)
  /\ UNCHANGED <<now, queryCache, calls, getResult, requestCount,
                 requestWindow, retry, pg, strCheck, valCheck,
                 dedup,
                 trend,
                 timeWindow,
                 geoCache, geo,
                 reliable,
                 keyed>>

\* One axios.get of a tool that calls axios directly resolves.  With two
\* requests in flight (Promise.all) the tool goes on after the second.
UpstreamResponds(data) ==
  /\ tool.pc = "awaiting"
  /\ tool.name # "searchComplaints"
  /\ LET t == [tool EXCEPT !.responses = Append(@, data), !.pending = @ - 1]
     IN tool' = IF t.pending > 0 THEN t
                ELSE toolShape(t, t.responses, FALSE)
  /\ UNCHANGED <<now, queryCache, calls, getResult, requestCount,
                 requestWindow, retry, pg, strCheck, valCheck,
                 dedup,
                 trend,
                 timeWindow,
                 geoCache, geo,
                 reliable,
                 keyed>>

\* The axios.get of searchStreetClosures resolves with a list of closure
\* rows: the rows are de-duplicated and the envelope is returned.
ClosuresRespond ==
  /\ tool.pc = "awaiting"
  /\ tool.name = "searchStreetClosures"
  /\ \E items \in SeqsUpTo(ClosureRows, MaxRecords) :
       tool' = toolShape([tool EXCEPT
                            !.responses = Append(@, Closures(items)),
                            !.pending = @ - 1],
                         <<Closures(items)>>, FALSE)
  /\ UNCHANGED <<now, queryCache, calls, getResult, requestCount,
                 requestWindow, retry, pg, strCheck, valCheck, dedup,
                 trend,
                 timeWindow,
                 geoCache, geo,
                 reliable,
                 keyed>>

\* One axios.get rejects: control passes to the catch block.
UpstreamFails(status) ==
  /\ tool.pc = "awaiting"
  /\ tool.name # "searchComplaints"
  /\ tool' = toolCatch(tool, status)
  /\ UNCHANGED <<now, queryCache, calls, getResult, requestCount,
                 requestWindow, retry, pg, strCheck, valCheck,
                 dedup,
                 trend,
                 timeWindow,
                 geoCache, geo,
                 reliable,
                 keyed>>

SOCRATA_ENDPOINT == "erm2-nwe9"

\* The query object of searchComplaints as a parameter bag in property
\* order ($select, $where, $order, $limit), names numbered alphabetically.
complaintsBag(query) ==
  << <<3, "unique_key,created_date,complaint_type">>, <<4, query.where>>,
     <<2, "created_date DESC">>, <<1, query.limit>> >>

\* searchComplaints up to its first await: a cache hit is shaped and
\* returned at once; otherwise withRetry makes the first attempt.
SearchComplaints(params) ==
  /\ ToolIdle
  /\ LET t == searchComplaintsStart(params)
         k == getCacheKey(SOCRATA_ENDPOINT, complaintsBag(t.sent[1]))
         wc == withCacheStart(queryCache, k, CACHE_CONFIG.DEFAULT_TTL, FALSE,
                              "makeRequest", now)
         tr == trackRequest(requestCount, requestWindow, now)
     IN IF t.pc = "done"
        THEN /\ tool' = t
             /\ UNCHANGED <<queryCache, calls, retry, requestCount,
                            requestWindow>>
        ELSE IF t.viaCache /\ wc.call.pc = "returned"
        THEN /\ tool' = toolShape(Request(t, <<>>), <<wc.call.data>>, TRUE)
             /\ queryCache' = wc.cache
             /\ calls' = [calls EXCEPT !["first"] = wc.call]
             /\ UNCHANGED <<retry, requestCount, requestWindow>>
        ELSE /\ CanTrack
             /\ tool' = t
             /\ queryCache' = IF t.viaCache THEN wc.cache ELSE queryCache
             /\ calls' = IF t.viaCache
                         THEN [calls EXCEPT !["first"] = wc.call]
                         ELSE calls
             /\ retry' = retryStart(RETRY_CONFIG.max_attempts,
                                    RETRY_CONFIG.max_delay)
             /\ requestCount' = tr.count
             /\ requestWindow' = tr.window
  /\ UNCHANGED <<now, getResult, pg, strCheck, valCheck,
                 dedup,
                 trend, timeWindow, geoCache, geo, reliable, keyed>>

\* The attempt of withRetry resolves: withCache stores the data, then the
\* tool shapes it.
ComplaintsAttemptSucceeds(data) ==
  /\ tool.pc = "awaiting"
  /\ tool.name = "searchComplaints"
  /\ retry.pc = "calling"
  /\ retry' = retryOnSuccess(retry, data)
  /\ LET wc == withCacheFinish(queryCache, calls["first"], data, now)
     IN IF tool.viaCache
        THEN /\ queryCache' = wc.cache
             /\ calls' = [calls EXCEPT !["first"] = wc.call]
        ELSE UNCHANGED <<queryCache, calls>>
  /\ tool' = toolShape([tool EXCEPT !.responses = Append(@, data),
                                    !.pending = 0],
                       <<data>>, FALSE)
  /\ UNCHANGED <<now, getResult, requestCount, requestWindow, pg, strCheck, valCheck,
                 dedup,
                 trend, timeWindow, geoCache, geo, reliable, keyed>>

\* The attempt rejects: withRetry sleeps before the next attempt, or throws
\* and the error passes through withCache to the catch block of the tool.
ComplaintsAttemptFails(status, draw) ==
  /\ tool.pc = "awaiting"
  /\ tool.name = "searchComplaints"
  /\ retry.pc = "calling"
  /\ LET r == retryOnError(retry, status, draw)
     IN /\ retry' = r
        /\ IF r.pc = "threw"
           THEN /\ tool' = toolCatch(tool, r.thrown.status)
                /\ calls' = IF tool.viaCache
                            THEN [calls EXCEPT !["first"] = [pc |-> "threw"]]
                            ELSE calls
           ELSE UNCHANGED <<tool, calls>>
  /\ UNCHANGED <<now, queryCache, getResult, requestCount, requestWindow, pg,
                 strCheck, valCheck,
                 dedup,
                 trend,
                 timeWindow,
                 geoCache, geo,
                 reliable,
                 keyed>>

\* The sleep of withRetry ends and the next attempt is made.
ComplaintsWake ==
  /\ tool.pc = "awaiting"
  /\ tool.name = "searchComplaints"
  /\ retry.pc = "sleeping"
  /\ CanTrack
  /\ LET r == retryAfterSleep(retry)
         tr == IF r.pc = "calling"
               THEN trackRequest(requestCount, requestWindow, now)
               ELSE [count |-> requestCount, window |-> requestWindow]
     IN /\ retry' = r
        /\ requestCount' = tr.count
        /\ requestWindow' = tr.window
        /\ IF r.pc = "threw"
           THEN /\ tool' = toolCatch(tool, r.thrown.status)
                /\ calls' = IF tool.viaCache
                            THEN [calls EXCEPT !["first"] = [pc |-> "threw"]]
                            ELSE calls
           ELSE /\ tool' = [tool EXCEPT !.sent = Append(@, tool.sent[1])]
                /\ UNCHANGED calls
  /\ UNCHANGED <<now, queryCache, getResult, pg, strCheck, valCheck,
                 dedup,
                 trend, timeWindow, geoCache, geo, reliable, keyed>>

(***************************************************************************)
(* De-duplication.  A record is kept with the fields the routines read; a  *)
(* property the record lacks reads as undefined.  `dedup` keeps one call:  *)
(* the routine, its input, what it returned and, when the routine is       *)
(* applied once more to the records it returned, the second result.  The   *)
(* routines are applied to every list of up to MaxRecords records.         *)
(***************************************************************************)
\* The step with unshift in place of push.
deduplicateStepPrepending(acc, record, keyField) ==
  LET key == record[keyField] IN
  IF ~Truthy(key)
  THEN [acc EXCEPT !.deduplicated = <<record>> \o @]
  ELSE IF key \in acc.seen
  THEN [acc EXCEPT !.duplicateCount = @ + 1]
  ELSE [acc EXCEPT !.seen = @ \cup {key},
                   !.deduplicated = <<record>> \o @]

\* The step that forgets a key once it has dropped a duplicate of it.
deduplicateStepForgetting(acc, record, keyField) ==
  LET key == record[keyField] IN
  IF ~Truthy(key)
  THEN [acc EXCEPT !.deduplicated = Append(@, record)]
  ELSE IF key \in acc.seen
  THEN [acc EXCEPT !.duplicateCount = @ + 1, !.seen = @ \ {key}]
  ELSE [acc EXCEPT !.seen = @ \cup {key},
                   !.deduplicated = Append(@, record)]

\* One step of the forEach in deduplicateRecords.  The Set compares keys
\* by value and type (SameValueZero).
deduplicateStep(acc, record, keyField) ==
  LET key == record[keyField] IN
  IF ~Truthy(key)
  THEN [acc EXCEPT !.deduplicated = Append(@, record)]
  ELSE IF key \in acc.seen
  THEN [acc EXCEPT !.duplicateCount = @ + 1]
  ELSE [acc EXCEPT !.seen = @ \cup {key},
                   !.deduplicated = Append(@, record)]

RECURSIVE deduplicateLoop(_, _, _)
deduplicateLoop(acc, records, keyField) ==
  IF records = <<>> THEN acc
  ELSE deduplicateLoop(deduplicateStep(acc, Head(records), keyField),
                       Tail(records), keyField)

deduplicateRecords(records, keyField) ==
  LET acc == deduplicateLoop([seen |-> {}, deduplicated |-> <<>>,
                              duplicateCount |-> 0], records, keyField)
  IN [records |-> acc.deduplicated,
      original_count |-> Len(records),
      deduplicated_count |-> Len(acc.deduplicated),
      duplicates_removed |-> acc.duplicateCount]

\* The template literal `${record.period}|${record.topic}`.
aggregatedKey(record) ==
  toString(record.period) \o <<"|">> \o toString(record.topic)

\* One step of the forEach in deduplicateAggregated; the Map is the
\* sequence of its entries in insertion order.
aggregateStep(aggregated, record) ==
  LET key == aggregatedKey(record) IN
  IF \E i \in 1..Len(aggregated) : aggregated[i].key = key
  THEN [i \in 1..Len(aggregated) |->
          IF aggregated[i].key = key
          THEN [aggregated[i] EXCEPT !.value.count = @ + record.count]
          ELSE aggregated[i]]
  ELSE Append(aggregated, [key |-> key, value |-> record])

RECURSIVE aggregateLoop(_, _)
aggregateLoop(aggregated, records) ==
  IF records = <<>> THEN aggregated
  ELSE aggregateLoop(aggregateStep(aggregated, Head(records)), Tail(records))

deduplicateAggregated(records) ==
  LET aggregated == aggregateLoop(<<>>, records)
  IN [i \in 1..Len(aggregated) |-> aggregated[i].value]

KeyValues ==
  {UNDEF, NULL, Num(0), Num(1), Str(<<>>), Str(<<"1">>), Bool(FALSE)}

KeyedRecords ==
  {[unique_key |-> k, value |-> v] : k \in KeyValues, v \in {Num(1), Num(2)}}

AggregatedRecords ==
  {[period |-> period, topic |-> topic, count |-> count] :
     period \in {Str(<<"a">>), Str(<<"a", "|", "b">>)},
     topic \in {Str(<<"b">>), Str(<<"b", "|", "b">>)},
     count \in {1, 2}}

DeduplicateRecords ==
  /\ dedup.pc = "idle"
  /\ \E records \in SeqsUpTo(KeyedRecords, MaxRecords),
        keyField \in {"unique_key", "value"} :
       dedup' = [pc |-> "done", fn |-> "deduplicateRecords",
                 input |-> records, keyField |-> keyField,
                 result |-> deduplicateRecords(records, keyField)]
  /\ UNCHANGED <<now, queryCache, calls, getResult, requestCount,
                 requestWindow, retry, pg, tool, strCheck, valCheck,
                 trend,
                 timeWindow,
                 geoCache, geo,
                 reliable,
                 keyed>>

\* deduplicateRecords applied to the records a call returned.
DeduplicateRecordsAgain ==
  /\ dedup.pc = "done"
  /\ dedup.fn = "deduplicateRecords"
  /\ dedup' = [pc |-> "again", fn |-> dedup.fn, input |-> dedup.input,
               keyField |-> dedup.keyField, result |-> dedup.result,
               second |-> deduplicateRecords(dedup.result.records,
                                             dedup.keyField)]
  /\ UNCHANGED <<now, queryCache, calls, getResult, requestCount,
                 requestWindow, retry, pg, tool, strCheck, valCheck,
                 trend,
                 timeWindow,
                 geoCache, geo,
                 reliable,
                 keyed>>

DeduplicateAggregated ==
  /\ dedup.pc = "idle"
  /\ \E records \in SeqsUpTo(AggregatedRecords, MaxRecords) :
       dedup' = [pc |-> "done", fn |-> "deduplicateAggregated",
                 input |-> records,
                 result |-> deduplicateAggregated(records)]
  /\ UNCHANGED <<now, queryCache, calls, getResult, requestCount,
                 requestWindow, retry, pg, tool, strCheck, valCheck,
                 trend,
                 timeWindow,
                 geoCache, geo,
                 reliable,
                 keyed>>

(***************************************************************************)
(* The trend of analyzeTrends.  Numbers that need not be integers are      *)
(* fractions num/den with den > 0; a division by zero gives Infinity or    *)
(* NaN as in JavaScript.                                                   *)
(***************************************************************************)
Ratio(num, den) == [t |-> "number", num |-> num, den |-> den]
NaN == [t |-> "number", nan |-> TRUE]
Infinity(sign) == [t |-> "number", infinity |-> sign]

IsFinite(x) == DOMAIN x = {"t", "num", "den"}

Sign(n) == IF n > 0 THEN 1 ELSE IF n < 0 THEN -1 ELSE 0
Abs(n) == IF n < 0 THEN -n ELSE n

\* a - b, a / b and a * 100 on finite numbers.
Minus(a, b) == Ratio(a.num * b.den - b.num * a.den, a.den * b.den)

Quotient(a, b) ==
  IF b.num = 0
  THEN IF a.num = 0 THEN NaN ELSE Infinity(Sign(a.num))
  ELSE Ratio(Sign(b.num) * a.num * b.den, a.den * Abs(b.num))

Times100(a) == IF IsFinite(a) THEN Ratio(a.num * 100, a.den) ELSE a

GreaterThanZero(a) ==
  IF IsFinite(a) THEN a.num > 0
  ELSE "infinity" \in DOMAIN a /\ a.infinity > 0

LessThanZero(a) ==
  IF IsFinite(a) THEN a.num < 0
  ELSE "infinity" \in DOMAIN a /\ a.infinity < 0

\* Number.prototype.toFixed(2): the number of hundredths nearest to the
\* value, the larger one on a tie; 'NaN' and 'Infinity' for the others.
toFixed2(a) ==
  IF IsFinite(a)
  THEN [t |-> "string",
        hundredths |-> Sign(a.num) * ((2 * Abs(a.num) * 100 + a.den)
                                        \div (2 * a.den))]
  ELSE IF "nan" \in DOMAIN a THEN Str(<<"NaN">>)
  ELSE Str(<<IF a.infinity > 0 THEN "Infinity" ELSE "-Infinity">>)

\* parseFloat: of a toFixed(2) string the number it spells; of other text
\* the number spelled by its longest prefix of the form -?digits(.digits)?,
\* NaN when there is none.
DigitChars == {"0", "1", "2", "3", "4", "5", "6", "7", "8", "9"}
DigitValue(c) == CHOOSE n \in 0..9 : ToString(n) = c

RECURSIVE leadingDigits(_)
leadingDigits(chars) ==
  IF chars = <<>> \/ Head(chars) \notin DigitChars THEN <<>>
  ELSE <<Head(chars)>> \o leadingDigits(Tail(chars))

RECURSIVE digitsValue(_, _)
digitsValue(acc, digits) ==
  IF digits = <<>> THEN acc
  ELSE digitsValue(acc * 10 + DigitValue(Head(digits)), Tail(digits))

parseDecimal(chars) ==
  LET negative == chars # <<>> /\ Head(chars) = "-"
      body == IF negative THEN Tail(chars) ELSE chars
      whole == leadingDigits(body)
      rest == SubSeq(body, Len(whole) + 1, Len(body))
      fraction == IF rest # <<>> /\ Head(rest) = "."
                  THEN leadingDigits(Tail(rest)) ELSE <<>>
      den == Pow(10, Len(fraction))
      num == digitsValue(0, whole) * den + digitsValue(0, fraction)
  IN IF whole = <<>> /\ fraction = <<>> THEN NaN
     ELSE Ratio(IF negative THEN -num ELSE num, den)

parseFloat(str) ==
  IF "hundredths" \in DOMAIN str THEN Ratio(str.hundredths, 100)
  ELSE IF str.s = <<"NaN">> THEN NaN
  ELSE IF str.s \in {<<"Infinity">>, <<"-Infinity">>}
  THEN Infinity(IF str.s = <<"Infinity">> THEN 1 ELSE -1)
  ELSE parseDecimal(str.s)

\* Array.prototype.slice with negative indices counted from the end.
slice(array, from, to) ==
  LET n == Len(array)
      lo == IF from < 0 THEN Max(n + from, 0) ELSE Min(from, n)
      hi == IF to < 0 THEN Max(n + to, 0) ELSE Min(to, n)
  IN SubSeq(array, lo + 1, hi)

\* periods.reduce((sum, p) => sum + p.count, 0)
RECURSIVE sumCounts(_)
sumCounts(periods) ==
  IF periods = <<>> THEN 0
  ELSE Head(periods).count + sumCounts(Tail(periods))

\* The guard of the trend with `>=` in place of `>`: the division is
\* performed whatever the previous average is.
percentageChangeUnguarded(recentAvg, previousAvg) ==
  IF previousAvg.num >= 0
  THEN Times100(Quotient(Minus(recentAvg, previousAvg), previousAvg))
  ELSE IF recentAvg.num > 0 THEN Ratio(999, 1)
  ELSE Ratio(0, 1)

percentageChange(recentAvg, previousAvg) ==
  IF previousAvg.num > 0
  THEN Times100(Quotient(Minus(recentAvg, previousAvg), previousAvg))
  ELSE IF recentAvg.num > 0 THEN Ratio(999, 1)
  ELSE Ratio(0, 1)

calculateTrend(timeline) ==
  IF Len(timeline) < 14 THEN NULL
  ELSE LET recentPeriods == slice(timeline, -7, Len(timeline))
           previousPeriods == slice(timeline, -14, -7)
           recentAvg == Ratio(sumCounts(recentPeriods), Len(recentPeriods))
           previousAvg ==
             Ratio(sumCounts(previousPeriods), Len(previousPeriods))
           change == percentageChange(recentAvg, previousAvg)
       IN [direction |-> IF GreaterThanZero(change) THEN "increasing"
                         ELSE IF LessThanZero(change) THEN "decreasing"
                         ELSE "stable",
           percentage_change |-> toFixed2(change),
           recent_avg |-> parseFloat(toFixed2(recentAvg)),
           previous_avg |-> parseFloat(toFixed2(previousAvg))]

\* Timelines: periods in ascending order, each with its count.
Run(n, count) == [i \in 1..n |-> count]

Periods(counts) == [i \in 1..Len(counts) |-> [period |-> i,
                                              count |-> counts[i]]]

Week(a, k, b) == Run(k, a) \o Run(7 - k, b)

Timelines ==
  {Periods(Run(n, c)) : n \in 0..13, c \in 0..MaxCount}
    \cup {Periods(Run(older, c) \o Week(p[1], p[2], p[3])
                    \o Week(r[1], r[2], r[3])) :
            older \in 0..(MaxPeriods - 14), c \in 0..MaxCount,
            p \in (0..MaxCount) \X (0..7) \X (0..MaxCount),
            r \in (0..MaxCount) \X (0..7) \X (0..MaxCount)}

\* The trend block of analyzeTrends runs on the timeline of the response.
CalculateTrend ==
  /\ trend.pc = "idle"
  /\ \E timeline \in Timelines :
       trend' = [pc |-> "done", timeline |-> timeline,
                 result |-> calculateTrend(timeline)]
  /\ UNCHANGED <<now, queryCache, calls, getResult, requestCount,
                 requestWindow, retry, pg, tool, strCheck, valCheck,
                 dedup,
                 timeWindow,
                 geoCache, geo,
                 reliable,
                 keyed>>

(***************************************************************************)
(* Dates.  A Date holds an instant, kept as whole days and milliseconds    *)
(* since the epoch; its local fields are read and set through the offset   *)
(* of the process's time zone, which changes by `delta` at 02:00 local     *)
(* time of the zone's transition day (0: no daylight saving change).       *)
(***************************************************************************)
HOUR_MS == 3600000
DAY_MS == 24 * HOUR_MS

Normalize(day, ms) == [day |-> day + (ms \div DAY_MS), ms |-> ms % DAY_MS]

Earlier(a, b) == a.day < b.day \/ (a.day = b.day /\ a.ms < b.ms)

\* The instant of the zone's transition.
transitionAt(zone) == Normalize(zone.day, 2 * HOUR_MS - zone.base)

offsetAt(zone, t) ==
  IF Earlier(t, transitionAt(zone)) THEN zone.base
  ELSE zone.base + zone.delta

\* getDate / getHours / getMinutes / getSeconds / getMilliseconds.
localFields(zone, t) == Normalize(t.day, t.ms + offsetAt(zone, t))

\* The instant of a local date and time: a time skipped or repeated by the
\* transition is read with the offset in force before it.
fromLocal(zone, local) ==
  LET before == Normalize(local.day, local.ms - zone.base)
      after == Normalize(local.day, local.ms - zone.base - zone.delta)
  IN IF localFields(zone, before) = local THEN before
     ELSE IF localFields(zone, after) = local THEN after
     ELSE before

\* date.setHours(h, m, s, ms), with the time of day in milliseconds.
setHours(zone, t, ms) ==
  fromLocal(zone, [day |-> localFields(zone, t).day, ms |-> ms])

\* date.setDate(date.getDate() - days)
setDateBack(zone, t, days) ==
  LET local == localFields(zone, t)
  IN fromLocal(zone, [day |-> local.day - days, ms |-> local.ms])

\* end - start, as whole days and milliseconds.
Elapsed(end, start) == Normalize(end.day - start.day, end.ms - start.ms)

\* Math.ceil and Math.round of a time span divided by one day.
ceilDays(span) == span.day + (IF span.ms > 0 THEN 1 ELSE 0)
roundDays(span) == span.day + (IF 2 * span.ms >= DAY_MS THEN 1 ELSE 0)

END_OF_DAY == DAY_MS - 1

\* getTimeWindow with `new Date()` giving the instant `date`.
getTimeWindowAt(zone, date, windowType) ==
  LET switch == getTimeWindow(windowType)
      end == setHours(zone, date, END_OF_DAY)
      start == setHours(zone, setDateBack(zone, end, switch.lookback), 0)
  IN IF switch.threw THEN [threw |-> TRUE]
     ELSE [threw |-> FALSE, start |-> start, end |-> end,
           days |-> ceilDays(Elapsed(end, start)), type |-> windowType]

\* getCustomWindow without the start.setHours(0, 0, 0, 0) that moves the
\* start to the beginning of its day.
getCustomWindowAtKeepingTime(zone, date, days) ==
  LET check == getCustomWindow(days)
      end == setHours(zone, date, END_OF_DAY)
      start == setDateBack(zone, end, check.lookback)
  IN IF check.threw THEN [threw |-> TRUE]
     ELSE [threw |-> FALSE, start |-> start, end |-> end,
           days |-> days.n, type |-> "custom"]

\* getCustomWindow with `new Date()` giving the instant `date`.
getCustomWindowAt(zone, date, days) ==
  LET check == getCustomWindow(days)
      end == setHours(zone, date, END_OF_DAY)
      start == setHours(zone, setDateBack(zone, end, check.lookback), 0)
  IN IF check.threw THEN [threw |-> TRUE]
     ELSE [threw |-> FALSE, start |-> start, end |-> end,
           days |-> days.n, type |-> "custom"]

\* Time zones: New York's offset, with no transition, or with the clocks
\* going forward or back, today or within the window.
Zones ==
  {[base |-> -5 * HOUR_MS, day |-> day, delta |-> delta] :
     day \in {Today - 20, Today},
     delta \in {-HOUR_MS, 0, HOUR_MS}}

\* The instants `new Date()` gives: on two consecutive days, just after
\* local midnight, in the day, and in the last millisecond of the day.
Dates(zone) ==
  {fromLocal(zone, [day |-> Today + d, ms |-> ms]) :
     d \in 0..MaxDay,
     ms \in {0, 1, 12 * HOUR_MS, 23 * HOUR_MS, END_OF_DAY}}

WindowTypes == {"90d", "12m", "365d", "30d"}

CustomDays ==
  {Num(n) : n \in {-1, 0, 1, 7, 30, 400}} \cup {UNDEF, NULL, Frac(1)}

GetTimeWindow ==
  /\ timeWindow.pc = "idle"
  /\ \E zone \in Zones : \E date \in Dates(zone) :
       \E windowType \in WindowTypes :
         timeWindow' = [pc |-> "done", fn |-> "getTimeWindow",
                        zone |-> zone, date |-> date, lookback |-> 
                          getTimeWindow(windowType).lookback,
                        result |->
                          getTimeWindowAt(zone, date, windowType)]
  /\ UNCHANGED <<now, queryCache, calls, getResult, requestCount,
                 requestWindow, retry, pg, tool, strCheck, valCheck,
                 dedup, trend,
                 geoCache, geo,
                 reliable,
                 keyed>>

GetCustomWindow ==
  /\ timeWindow.pc = "idle"
  /\ \E zone \in Zones : \E date \in Dates(zone) :
       \E days \in CustomDays :
         timeWindow' = [pc |-> "done", fn |-> "getCustomWindow",
                        zone |-> zone, date |-> date,
                        lookback |-> getCustomWindow(days).lookback,
                        result |-> getCustomWindowAt(zone, date, days)]
  /\ UNCHANGED <<now, queryCache, calls, getResult, requestCount,
                 requestWindow, retry, pg, tool, strCheck, valCheck,
                 dedup, trend,
                 geoCache, geo,
                 reliable,
                 keyed>>

(***************************************************************************)
(* Geographic enrichment of a 311 record.  geoCache is the module's Map,   *)
(* kept as the sequence of its entries.                                    *)
(***************************************************************************)
CD_TO_NTA_MAP ==
  <<<<<<"1", "0", "1">>, "MN01">>, <<<<"1", "0", "2">>, "MN03">>,
    <<<<"1", "0", "3">>, "MN04">>, <<<<"1", "0", "4">>, "MN06">>,
    <<<<"1", "0", "5">>, "MN09">>, <<<<"1", "0", "6">>, "MN11">>,
    <<<<"1", "0", "7">>, "MN12">>, <<<<"1", "0", "8">>, "MN13">>,
    <<<<"1", "0", "9">>, "MN14">>, <<<<"1", "1", "0">>, "MN15">>,
    <<<<"1", "1", "1">>, "MN17">>, <<<<"1", "1", "2">>, "MN19">>,
    <<<<"2", "0", "1">>, "BX01">>, <<<<"2", "0", "2">>, "BX03">>,
    <<<<"2", "0", "3">>, "BX05">>, <<<<"2", "0", "4">>, "BX06">>,
    <<<<"2", "0", "5">>, "BX07">>, <<<<"2", "0", "6">>, "BX08">>,
    <<<<"2", "0", "7">>, "BX09">>, <<<<"2", "0", "8">>, "BX10">>,
    <<<<"2", "0", "9">>, "BX11">>, <<<<"2", "1", "0">>, "BX13">>,
    <<<<"2", "1", "1">>, "BX14">>, <<<<"2", "1", "2">>, "BX17">>,
    <<<<"3", "0", "1">>, "BK09">>, <<<<"3", "0", "2">>, "BK17">>,
    <<<<"3", "0", "3">>, "BK19">>, <<<<"3", "0", "4">>, "BK21">>,
    <<<<"3", "0", "5">>, "BK23">>, <<<<"3", "0", "6">>, "BK25">>,
    <<<<"3", "0", "7">>, "BK27">>, <<<<"3", "0", "8">>, "BK29">>,
    <<<<"3", "0", "9">>, "BK31">>, <<<<"3", "1", "0">>, "BK33">>,
    <<<<"3", "1", "1">>, "BK35">>, <<<<"3", "1", "2">>, "BK37">>,
    <<<<"3", "1", "3">>, "BK40">>, <<<<"3", "1", "4">>, "BK42">>,
    <<<<"3", "1", "5">>, "BK44">>, <<<<"3", "1", "6">>, "BK46">>,
    <<<<"3", "1", "7">>, "BK50">>, <<<<"3", "1", "8">>, "BK60">>,
    <<<<"4", "0", "1">>, "QN01">>, <<<<"4", "0", "2">>, "QN04">>,
    <<<<"4", "0", "3">>, "QN07">>, <<<<"4", "0", "4">>, "QN09">>,
    <<<<"4", "0", "5">>, "QN12">>, <<<<"4", "0", "6">>, "QN15">>,
    <<<<"4", "0", "7">>, "QN17">>, <<<<"4", "0", "8">>, "QN19">>,
    <<<<"4", "0", "9">>, "QN22">>, <<<<"4", "1", "0">>, "QN25">>,
    <<<<"4", "1", "1">>, "QN27">>, <<<<"4", "1", "2">>, "QN29">>,
    <<<<"4", "1", "3">>, "QN31">>, <<<<"4", "1", "4">>, "QN33">>,
    <<<<"5", "0", "1">>, "SI01">>, <<<<"5", "0", "2">>, "SI05">>,
    <<<<"5", "0", "3">>, "SI08">>>>

BOROUGH_TO_ID ==
  <<<<MANHATTAN, "1">>, <<BRONX, "2">>, <<BROOKLYN, "3">>, <<QUEENS, "4">>,
    <<STATEN_ISLAND, "5">>>>

\* table[key], undefined when the table has no such property.
Lookup(table, key) ==
  IF \E i \in 1..Len(table) : table[i][1] = key
  THEN Str(<<table[CHOOSE i \in 1..Len(table) : table[i][1] = key][2]>>)
  ELSE UNDEF

\* `a || b`
Or(a, b) == IF Truthy(a) THEN a ELSE b

\* str.padStart(2, '0')
padStart2(chars) ==
  IF Len(chars) >= 2 THEN chars ELSE Run(2 - Len(chars), "0") \o chars

\* The template literal `${lat},${lon}`.
geoCacheKey(lat, lon) == toString(lat) \o <<",">> \o toString(lon)

\* The body of enrich311Geo after the cache check.
enrich(record) ==
  LET lat == record.latitude
      lon == record.longitude
      borough == Or(IF record.borough \in {UNDEF, NULL} THEN UNDEF
                    ELSE Str(toUpperCase(record.borough.s)), NULL)
      boroughId == IF Truthy(borough) THEN Lookup(BOROUGH_TO_ID, borough.s)
                   ELSE NULL
      match == IF Truthy(record.community_board)
               THEN leadingDigits(record.community_board.s) ELSE <<>>
      matched == match # <<>> /\ Truthy(borough)
      cdNumeric == IF matched THEN Str(padStart2(match)) ELSE NULL
      cd == IF matched THEN Str(toString(boroughId) \o cdNumeric.s) ELSE NULL
      nta == IF Truthy(cd) /\ Truthy(Lookup(CD_TO_NTA_MAP, cd.s))
             THEN Lookup(CD_TO_NTA_MAP, cd.s) ELSE NULL
  IN [borough |-> borough, borough_id |-> boroughId, cd |-> cd,
      cd_numeric |-> cdNumeric, nta |-> nta, bbl |-> Or(record.bbl, NULL),
      lat |-> IF Truthy(lat) THEN parseFloat(lat) ELSE NULL,
      lon |-> IF Truthy(lon) THEN parseFloat(lon) ELSE NULL]

\* enrich311Geo: the value returned and the Map afterwards.
enrich311Geo(cache, record) ==
  LET lat == record.latitude
      lon == record.longitude
      cacheKey == geoCacheKey(lat, lon)
      enriched == enrich(record)
  IN IF Truthy(lat) /\ Truthy(lon) /\ HasKey(cache, cacheKey)
     THEN [returned |-> cache[IndexOfKey(cache, cacheKey)].value,
           cache |-> cache]
     ELSE [returned |-> enriched,
           cache |-> IF Truthy(lat) /\ Truthy(lon)
                     THEN MapSet(cache, [key |-> cacheKey,
                                         value |-> enriched])
                     ELSE cache]

GeoRecords ==
  {[latitude |-> at[1], longitude |-> at[2], borough |-> borough,
    community_board |-> community_board, bbl |-> bbl] :
     at \in {<<UNDEF, UNDEF>>, <<Str(<<"4", "0", ".", "7">>), UNDEF>>,
             <<Str(<<"4", "0", ".", "7">>),
               Str(<<"-", "7", "3", ".", "9">>)>>},
     borough \in {UNDEF, Str(<<"B", "r", "o", "o", "k", "l", "y", "n">>),
                  Str(MANHATTAN),
                  Str(<<"U", "n", "s", "p", "e", "c", "i", "f", "i", "e",
                        "d">>)},
     community_board \in
       {UNDEF, Str(<<"1", "4", " ", "B", "R", "O", "O", "K", "L", "Y", "N">>),
        Str(<<"1", " ", "M", "A", "N", "H", "A", "T", "T", "A", "N">>),
        Str(<<"0", " ", "U", "n", "s", "p", "e", "c", "i", "f", "i", "e",
              "d">>),
        Str(<<"U", "n", "s", "p", "e", "c", "i", "f", "i", "e", "d", " ",
              "B", "R", "O", "O", "K", "L", "Y", "N">>)},
     bbl \in {UNDEF, Str(<<"3", "0", "1">>)}}

\* One call of enrich311Geo; the Map lives as long as the process.
Enrich311Geo ==
  \E record \in GeoRecords :
    LET call == enrich311Geo(geoCache, record)
    IN /\ geo' = [pc |-> "done", record |-> record,
                  returned |-> call.returned]
       /\ geoCache' = call.cache
       /\ UNCHANGED <<now, queryCache, calls, getResult, requestCount,
                      requestWindow, retry, pg, tool, strCheck, valCheck,
                      dedup, trend, timeWindow,
                 reliable,
                 keyed>>

(***************************************************************************)
(* reliableRequest.  `reliable` is the one call in progress: its options,  *)
(* how many times requestFn was invoked, and how the promise settled.  The *)
(* page size 1000 and page limit 10 that autoPaginate defaults to are      *)
(* scaled down to DEFAULT_PAGE_SIZE and DEFAULT_MAX_PAGES.                 *)
(***************************************************************************)
DEFAULT_PAGE_SIZE == 2
DEFAULT_MAX_PAGES == 2

IdleReliable == [pc |-> "idle"]

Array(items) == [t |-> "array", items |-> items]

ReliableKey == getCacheKey("erm2-nwe9", <<<<1, 10>>>>)

\* executeRequest up to its first await.
executeRequest(r, maxRecords) ==
  IF r.usePagination
  THEN [r |-> [r EXCEPT !.pc = "paginating", !.requested = 1],
        pg |-> paginateLoop([IdlePaginate EXCEPT
                               !.pageSize = DEFAULT_PAGE_SIZE,
                               !.maxRecords = maxRecords,
                               !.maxPages = DEFAULT_MAX_PAGES]),
        retry |-> IdleRetry, tracked |-> FALSE]
  ELSE IF r.useRetry
  THEN [r |-> [r EXCEPT !.pc = "retrying", !.requested = 1],
        pg |-> IdlePaginate,
        retry |-> retryStart(RETRY_CONFIG.max_attempts,
                             RETRY_CONFIG.max_delay),
        tracked |-> TRUE]
  ELSE [r |-> [r EXCEPT !.pc = "requesting", !.requested = 1],
        pg |-> IdlePaginate, retry |-> IdleRetry, tracked |-> FALSE]

\* reliableRequest after executeRequest resolved with `data`.
reliableFinish(r, cache, data, t) ==
  [r |-> [r EXCEPT !.pc = "returned", !.data = data, !.cached = FALSE],
   cache |-> IF r.useCache
             THEN setCache(cache, ReliableKey, data, r.cacheTTL, t)
             ELSE cache]

\* reliableRequest after executeRequest rejected: nothing catches.
reliableThrow(r, status) ==
  [r EXCEPT !.pc = "threw", !.thrown = [status |-> status]]

ReliableRequest(useCache, useRetry, usePagination, maxRecords) ==
  /\ reliable.pc \in {"idle", "returned", "threw"}
  /\ CanTrack
  /\ LET r == [pc |-> "idle", useCache |-> useCache, useRetry |-> useRetry,
               usePagination |-> usePagination,
               cacheTTL |-> CACHE_CONFIG.DEFAULT_TTL, requested |-> 0,
               failures |-> <<>>, data |-> UNDEF, cached |-> FALSE,
               thrown |-> UNDEF, trackedBefore |-> requestCount]
         wc == withCacheStart(queryCache, ReliableKey, r.cacheTTL, FALSE,
                              "executeRequest", now)
         hit == useCache /\ wc.call.pc = "returned"
         ex == executeRequest(r, maxRecords)
         tr == IF ~hit /\ ex.tracked
               THEN trackRequest(requestCount, requestWindow, now)
               ELSE [count |-> requestCount, window |-> requestWindow]
     IN /\ reliable' = IF hit
                       THEN [r EXCEPT !.pc = "returned",
                                      !.data = wc.call.data, !.cached = TRUE]
                       ELSE ex.r
        /\ queryCache' = IF useCache THEN wc.cache ELSE queryCache
        /\ pg' = IF hit THEN IdlePaginate ELSE ex.pg
        /\ retry' = IF hit THEN IdleRetry ELSE ex.retry
        /\ requestCount' = tr.count
        /\ requestWindow' = tr.window
  /\ UNCHANGED <<now, calls, getResult, tool, strCheck, valCheck, dedup,
                 trend, timeWindow, geoCache, geo,
                 keyed>>

ReliablePages ==
  {[isNull |-> TRUE, records |-> <<>>]} \cup
  {[isNull |-> FALSE, records |-> r] :
     r \in {<<>>, <<"a">>, <<"a", "b">>}}

\* A page request of autoPaginate resolves.
ReliablePageReturns(resp) ==
  /\ reliable.pc = "paginating"
  /\ LET p == paginateOnPage(pg, resp)
         fin == reliableFinish(reliable, queryCache, Array(p.result), now)
     IN /\ pg' = p
        /\ reliable' = IF p.pc = "done" THEN fin.r
                       ELSE [reliable EXCEPT !.requested = @ + 1]
        /\ queryCache' = IF p.pc = "done" THEN fin.cache ELSE queryCache
  /\ UNCHANGED <<now, calls, getResult, requestCount, requestWindow, retry,
                 tool, strCheck, valCheck, dedup, trend, timeWindow,
                 geoCache, geo,
                 keyed>>

\* A page request of autoPaginate rejects: autoPaginate has no handler,
\* executeRequest and reliableRequest reject with the same error.
ReliablePageThrows(status) ==
  /\ reliable.pc = "paginating"
  /\ pg' = [pg EXCEPT !.pc = "threw"]
  /\ reliable' = reliableThrow([reliable EXCEPT
                                  !.failures = Append(@, status)], status)
  /\ UNCHANGED <<now, queryCache, calls, getResult, requestCount,
                 requestWindow, retry, tool, strCheck, valCheck, dedup,
                 trend, timeWindow, geoCache, geo,
                 keyed>>

\* An attempt of withRetry resolves.
ReliableAttemptSucceeds(value) ==
  /\ reliable.pc = "retrying"
  /\ retry.pc = "calling"
  /\ retry' = retryOnSuccess(retry, value)
  /\ LET fin == reliableFinish(reliable, queryCache, value, now)
     IN reliable' = fin.r /\ queryCache' = fin.cache
  /\ UNCHANGED <<now, calls, getResult, requestCount, requestWindow, pg,
                 tool, strCheck, valCheck, dedup, trend, timeWindow,
                 geoCache, geo,
                 keyed>>

\* An attempt of withRetry rejects: withRetry sleeps, or throws.
ReliableAttemptFails(status, draw) ==
  /\ reliable.pc = "retrying"
  /\ retry.pc = "calling"
  /\ LET after == retryOnError(retry, status, draw)
         failed == [reliable EXCEPT !.failures = Append(@, status)]
     IN /\ retry' = after
        /\ reliable' = IF after.pc = "threw"
                       THEN reliableThrow(failed, status) ELSE failed
  /\ UNCHANGED <<now, queryCache, calls, getResult, requestCount,
                 requestWindow, pg, tool, strCheck, valCheck, dedup, trend,
                 timeWindow, geoCache, geo,
                 keyed>>

\* The sleep of withRetry ends: the next attempt is tracked and made.
ReliableWake ==
  /\ reliable.pc = "retrying"
  /\ retry.pc = "sleeping"
  /\ CanTrack
  /\ retry' = retryAfterSleep(retry)
  /\ reliable' = [reliable EXCEPT !.requested = @ + 1]
  /\ LET tr == trackRequest(requestCount, requestWindow, now)
     IN requestCount' = tr.count /\ requestWindow' = tr.window
  /\ UNCHANGED <<now, queryCache, calls, getResult, pg, tool, strCheck,
                 valCheck, dedup, trend, timeWindow, geoCache, geo,
                 keyed>>

\* The bare requestFn() of executeRequest settles.
ReliablePlainReturns(value) ==
  /\ reliable.pc = "requesting"
  /\ LET fin == reliableFinish(reliable, queryCache, value, now)
     IN reliable' = fin.r /\ queryCache' = fin.cache
  /\ UNCHANGED <<now, calls, getResult, requestCount, requestWindow, retry,
                 pg, tool, strCheck, valCheck, dedup, trend, timeWindow,
                 geoCache, geo,
                 keyed>>

ReliablePlainThrows(status) ==
  /\ reliable.pc = "requesting"
  /\ reliable' = reliableThrow([reliable EXCEPT
                                  !.failures = Append(@, status)], status)
  /\ UNCHANGED <<now, queryCache, calls, getResult, requestCount,
                 requestWindow, retry, pg, tool, strCheck, valCheck, dedup,
                 trend, timeWindow, geoCache, geo,
                 keyed>>

(***************************************************************************)
(* getCacheKey on params of any shape.  An object is the sequence of its   *)
(* own properties <<name, value>> in insertion order; property names are   *)
(* numbered in their sort order.  JSON text is kept as the structure it    *)
(* spells, and the md5 digest as the text it is taken of.  On bags of      *)
(* numbers this is getCacheKey above.                                      *)
(***************************************************************************)
Obj(props) == [t |-> "object", props |-> props]

\* Object.keys(object)
RECURSIVE ObjectKeys(_)
ObjectKeys(props) ==
  IF props = <<>> THEN <<>> ELSE <<Head(props)[1]>> \o ObjectKeys(Tail(props))

\* Array.prototype.sort on property names.
RECURSIVE InsertName(_, _)
InsertName(name, sorted) ==
  IF sorted = <<>> THEN <<name>>
  ELSE IF name <= Head(sorted) THEN <<name>> \o sorted
  ELSE <<Head(sorted)>> \o InsertName(name, Tail(sorted))

RECURSIVE SortNames(_)
SortNames(names) ==
  IF names = <<>> THEN <<>>
  ELSE InsertName(Head(names), SortNames(Tail(names)))

HasProp(props, name) == \E i \in 1..Len(props) : props[i][1] = name

GetProp(props, name) ==
  props[CHOOSE i \in 1..Len(props) : props[i][1] = name][2]

\* JSON.stringify(value, replacer) with an array replacer: at every level
\* of nesting only the properties named in the array are written, in the
\* array's order, and a property whose value is undefined is left out.
RECURSIVE stringify(_, _)
stringifyProps(props, replacer, names) ==
  LET Written[i \in 0..Len(names)] ==
        IF i = 0 THEN <<>>
        ELSE IF HasProp(props, names[i])
                  /\ GetProp(props, names[i]) # UNDEF
             THEN Append(Written[i - 1],
                         <<names[i],
                           stringify(GetProp(props, names[i]), replacer)>>)
             ELSE Written[i - 1]
  IN Written[Len(names)]

stringify(value, replacer) ==
  IF value.t = "object"
  THEN [t |-> "object", props |-> stringifyProps(value.props, replacer,
                                                 replacer)]
  ELSE value

getCacheKeyOf(endpoint, params) ==
  LET sortedParams == stringify(params, SortNames(ObjectKeys(params.props)))
  IN <<endpoint, sortedParams>>

ParamObjects ==
  {Obj(<<>>), Obj(<<<<1, Num(1)>>>>), Obj(<<<<1, Num(2)>>>>),
   Obj(<<<<1, Num(1)>>, <<2, Num(1)>>>>),
   Obj(<<<<2, Num(1)>>, <<1, Num(1)>>>>),
   Obj(<<<<1, UNDEF>>>>), Obj(<<<<1, NULL>>>>),
   Obj(<<<<1, Num(1)>>, <<2, UNDEF>>>>),
   Obj(<<<<1, Obj(<<<<3, Num(1)>>>>)>>>>),
   Obj(<<<<1, Obj(<<<<3, Num(2)>>>>)>>>>),
   Obj(<<<<1, Obj(<<<<1, Num(1)>>>>)>>>>),
   Obj(<<<<1, Obj(<<<<1, Num(2)>>>>)>>>>)}

IdleKeyed == [pc |-> "idle", made |-> 0]

\* withCache(endpoint, params, requestFn) up to its await; requestFn
\* fetches the rows of that endpoint and those params.
KeyedRequest ==
  /\ keyed.pc \in {"idle", "returned"}
  /\ keyed.made < MaxKeyedCalls
  /\ \E endpoint \in Endpoints, params \in ParamObjects :
       LET wc == withCacheStart(queryCache, getCacheKeyOf(endpoint, params),
                                DEFAULT_TTL, FALSE, "requestFn", now)
       IN /\ keyed' = [pc |-> wc.call.pc, made |-> keyed.made + 1,
                       endpoint |-> endpoint, params |-> params,
                       call |-> wc.call]
          /\ queryCache' = wc.cache
  /\ UNCHANGED <<now, calls, getResult, requestCount, requestWindow, retry,
                 pg, tool, strCheck, valCheck, dedup, trend, timeWindow,
                 geoCache, geo, reliable>>

\* requestFn resolves with the rows of the request it was made for.
KeyedProducerReturns ==
  /\ keyed.pc = "awaiting"
  /\ LET data == [t |-> "array", endpoint |-> keyed.endpoint,
                  params |-> keyed.params]
         fin == withCacheFinish(queryCache, keyed.call, data, now)
     IN /\ keyed' = [keyed EXCEPT !.pc = "returned", !.call = fin.call]
        /\ queryCache' = fin.cache
  /\ UNCHANGED <<now, calls, getResult, requestCount, requestWindow, retry,
                 pg, tool, strCheck, valCheck, dedup, trend, timeWindow,
                 geoCache, geo, reliable>>

(***************************************************************************)
(* Parameter values the tools are called with                              *)
(***************************************************************************)
ToolTexts == {UNDEF, NULL, Str(<<"a">>), Str(<<"a", Quote, "b">>)}
ToolBoroughs == {UNDEF, Str(<<"x">>), Str(<<"B", "X">>)}
ToolDays == {UNDEF, NULL, Num(30), Num(90), Num(400)}
ToolLimits == {UNDEF, Num(10)}
ToolFlags == {UNDEF, Bool(FALSE)}
ToolGroupings == {UNDEF, Str(WEEK), Str(<<"y", "e", "a", "r">>)}
ToolDates == {UNDEF, Str(<<"2025-01-01">>), Str(<<"soon">>)}

Init ==
  /\ now = 0
  /\ queryCache = <<>>
  /\ calls = [c \in Calls |-> IdleCall]
  /\ getResult = UNDEF
  /\ requestCount = 0
  /\ requestWindow = 0
  /\ retry = IdleRetry
  /\ pg = IdlePaginate
  /\ tool = [pc |-> "idle"]
  /\ strCheck = [pc |-> "idle"]
  /\ valCheck = [pc |-> "idle"]
  /\ dedup = [pc |-> "idle"]
  /\ keyed = IdleKeyed
  /\ reliable = IdleReliable
  /\ geoCache = <<>>
  /\ geo = [pc |-> "idle"]
  /\ timeWindow = [pc |-> "idle"]
  /\ trend = [pc |-> "idle"]

\* withCache and reads of the cache, with inputs drawn from the given sets.
CacheCalls(E, P, D, T) ==
  \/ Tick
  \/ \E e \in E, p \in P, ttl \in T, skip \in BOOLEAN :
        WithCacheBegin("first", e, p, ttl, skip)
  \/ \E d \in D : ProducerReturns("first", d)
  \/ ProducerThrows("first")
  \/ \E e \in E, p \in P : GetCached(getCacheKey(e, p))
  \/ ClearCache

\* Expiry and payload variety on two keys.
NextCache == CacheCalls({"erm2-nwe9"}, ParamBags, Payloads, TTLs)

SpecCache == Init /\ [][NextCache]_vars

\* Capacity: more keys than MAX_SIZE, one payload and one ttl, and direct
\* use of setCache.
NextCapacity ==
  \/ CacheCalls(Endpoints, ParamBags, {Rows("A")}, {DEFAULT_TTL})
  \/ \E e \in Endpoints, p \in ParamBags :
        SetCache(getCacheKey(e, p), Rows("A"), DEFAULT_TTL)

SpecCapacity == Init /\ [][NextCapacity]_vars

\* withCache called with parameter objects and with null or undefined in
\* their place.
NextCacheParams ==
  \/ CacheCalls({"erm2-nwe9"}, ParamBags, {NULL, Rows("A")}, TTLs)
  \/ \E params \in {NULL, UNDEF}, ttl \in TTLs, skip \in BOOLEAN :
        WithCacheBeginNullish("first", "erm2-nwe9", params, ttl, skip)

SpecCacheParams == Init /\ [][NextCacheParams]_vars

NextRetry ==
  \/ Tick
  \/ \E m \in MaxAttemptsOptions, d \in MaxDelayOptions : RetryBegin(m, d)
  \/ \E v \in Payloads : AttemptSucceeds(v)
  \/ \E st \in Statuses, draw \in JitterDraws : AttemptFails(st, draw)
  \/ Wake

SpecRetry == Init /\ [][NextRetry]_vars

NextPaginate ==
  \/ \E ps \in 1..2, mr \in 0..MaxRecordsOption, mp \in 0..MaxPagesOption :
        PaginateBegin(ps, mr, mp)
  \/ \E resp \in PageResponses : PageReturns(resp)
  \/ PageThrows

SpecPaginate == Init /\ [][NextPaginate]_vars

\* Every call of requestFn settles.
FairSpecPaginate ==
  SpecPaginate /\ WF_vars((\E resp \in PageResponses : PageReturns(resp))
                          \/ PageThrows)

NextStrings ==
  \E v \in TextValues, maxLength \in {2, 1000}, pattern \in PatternOptions,
     required \in BOOLEAN : ValidateString(v, maxLength, pattern, required)

SpecStrings == Init /\ [][NextStrings]_vars

\* Each validator applied to values of every kind a caller can pass.
NextValidators ==
  \/ \E borough \in BoroughValues : ValidateBorough(borough)
  \/ \E days \in DaysValues, range \in {<<1, 365>>, <<1, 90>>},
        required \in BOOLEAN :
       ValidateDays(days, range[1], range[2], required)
  \/ \E limit \in LimitValues, defaultValue \in {100, 1000} :
       ValidateLimit(limit, 1, 1000, defaultValue)
  \/ \E value \in EnumValues, required \in BOOLEAN :
       ValidateEnum(value, <<DAY, WEEK, MONTH>>, required)
  \/ \E date \in DateValues, required \in BOOLEAN :
       ValidateDate(date, required)
  \/ \E value \in {UNDEF, NULL, Str(<<>>), Str(<<"a", Quote>>)},
        pattern \in PatternOptions, required \in BOOLEAN :
       ValidateString(value, MaxStrLen, pattern, required)

SpecValidators == Init /\ [][NextValidators]_vars

\* The two de-duplication routines, each applied to one input.
NextDedup ==
  \/ DeduplicateRecords
  \/ DeduplicateRecordsAgain
  \/ DeduplicateAggregated

SpecDedup == Init /\ [][NextDedup]_vars

\* The trend of every timeline.
NextTrend == CalculateTrend

SpecTrend == Init /\ [][NextTrend]_vars

\* The time windows at every time of day, across a change of the clocks.
NextWindows ==
  \/ GetTimeWindow
  \/ GetCustomWindow

SpecWindows == Init /\ [][NextWindows]_vars

\* Calls of enrich311Geo one after another in one process.
NextGeo == Enrich311Geo

SpecGeo == Init /\ [][NextGeo]_vars

\* reliableRequest with every combination of its options, one call at a
\* time, and every way requestFn can settle.
NextReliable ==
  \/ Tick
  \/ \E useCache \in BOOLEAN, useRetry \in BOOLEAN,
        usePagination \in BOOLEAN :
        ReliableRequest(useCache, useRetry, usePagination, MaxRecordsOption)
  \/ \E resp \in ReliablePages : ReliablePageReturns(resp)
  \/ \E status \in Statuses : ReliablePageThrows(status)
  \/ \E value \in {Rows("A"), NULL} : ReliableAttemptSucceeds(value)
  \/ \E status \in Statuses, draw \in {0} :
        ReliableAttemptFails(status, draw)
  \/ ReliableWake
  \/ \E value \in {Rows("A"), NULL} : ReliablePlainReturns(value)
  \/ \E status \in Statuses : ReliablePlainThrows(status)

SpecReliable == Init /\ [][NextReliable]_vars

\* Two withCache calls in one process: the second may start while the
\* first is suspended at its await.
NextOverlap ==
  \/ Tick
  \/ \E c \in Calls, p \in ParamBags :
        WithCacheBegin(c, "erm2-nwe9", p, DEFAULT_TTL, FALSE)
  \/ \E c \in Calls, d \in {Rows("A"), Rows("B")} : ProducerReturns(c, d)
  \/ \E c \in Calls : ProducerThrows(c)

SpecOverlap == Init /\ [][NextOverlap]_vars

\* withCache calls one after another with params of every shape.
NextCacheKeys ==
  \/ KeyedRequest
  \/ KeyedProducerReturns

SpecCacheKeys == Init /\ [][NextCacheKeys]_vars

\* searchStreetClosures answered with closure rows, with and without the
\* key fields.
NextClosures ==
  \/ \E borough \in {UNDEF, Str(<<"x">>), Str(<<"B", "X">>)},
        active_only \in ToolFlags :
        SearchStreetClosures([borough |-> borough, work_type |-> UNDEF,
                              limit |-> UNDEF, active_only |-> active_only])
  \/ ClosuresRespond
  \/ UpstreamResponds(NULL)
  \/ UpstreamFails(500)

SpecClosures == Init /\ [][NextClosures]_vars

\* The tools that call axios directly, one invocation at a time, with
\* every way the upstream API can answer.
NextTools ==
  \/ \E agency \in ToolTexts, min_amount \in {UNDEF, Num(5)},
        fiscal_year \in {UNDEF, Str(<<"2", "0", "2", "5">>)},
        limit \in ToolLimits :
        SearchSpending([agency |-> agency, min_amount |-> min_amount,
                        max_amount |-> UNDEF, fiscal_year |-> fiscal_year,
                        limit |-> limit])
  \/ \E complaint_type \in ToolTexts, borough \in ToolBoroughs,
        group_by \in ToolGroupings, days \in ToolDays :
        AnalyzeTrends([complaint_type |-> complaint_type,
                       borough |-> borough, group_by |-> group_by,
                       days |-> days])
  \/ \E borough \in ToolBoroughs, status \in ToolTexts, days \in ToolDays,
        limit \in ToolLimits, aggregated \in ToolFlags :
        SearchViolations([borough |-> borough, status |-> status,
                          days |-> days, limit |-> limit,
                          aggregated |-> aggregated])
  \/ \E borough \in ToolBoroughs, work_type \in ToolTexts,
        limit \in ToolLimits, active_only \in ToolFlags :
        SearchStreetClosures([borough |-> borough, work_type |-> work_type,
                              limit |-> limit, active_only |-> active_only])
  \/ \E data \in {NULL, Rows("A")} : UpstreamResponds(data)
  \/ \E status \in {0, 429, 500} : UpstreamFails(status)

SpecTools == Init /\ [][NextTools]_vars

\* searchComplaints over the query cache, withRetry and the request tracker.
\* The clock stands still here: no entry expires within MaxTime.
NextComplaints ==
  \/ \E complaint_type \in {UNDEF, Str(<<"a", Quote, "b">>)},
        start_date \in {UNDEF, Str(<<"soon">>)}, days \in {NULL, Num(400)},
        use_cache \in ToolFlags :
        SearchComplaints([complaint_type |-> complaint_type,
                          borough |-> UNDEF, start_date |-> start_date,
                          end_date |-> start_date, days |-> days,
                          limit |-> UNDEF, use_cache |-> use_cache,
                          skip_cache |-> UNDEF])
  \/ \E data \in {NULL, Rows("A")} : ComplaintsAttemptSucceeds(data)
  \/ \E status \in {400, 429} : ComplaintsAttemptFails(status, 0)
  \/ ComplaintsWake

SpecComplaints == Init /\ [][NextComplaints]_vars

\* The four validating tools called with valid and invalid parameters, over
\* the query cache and the request tracker that searchComplaints uses.
\* 'BX' is a borough validateBorough rejects, 400 is out of the days range,
\* 0 is below the limit range and "soon" is not a date.  The clock stands
\* still here as well.
NextFailFast ==
  \/ \E borough \in {UNDEF, Str(<<"B", "X">>)},
        start_date \in {UNDEF, Str(<<"soon">>)}, days \in {NULL, Num(400)},
        use_cache \in ToolFlags :
        SearchComplaints([complaint_type |-> UNDEF, borough |-> borough,
                          start_date |-> start_date, end_date |-> UNDEF,
                          days |-> days, limit |-> UNDEF,
                          use_cache |-> use_cache, skip_cache |-> UNDEF])
  \/ \E borough \in {UNDEF, Str(<<"B", "X">>)}, days \in {UNDEF, Num(400)},
        group_by \in {UNDEF, Str(<<"y", "e", "a", "r">>)} :
        AnalyzeTrends([complaint_type |-> UNDEF, borough |-> borough,
                       group_by |-> group_by, days |-> days])
  \/ \E borough \in {UNDEF, Str(<<"B", "X">>)}, limit \in {UNDEF, Num(0)} :
        SearchViolations([borough |-> borough, status |-> UNDEF,
                          days |-> UNDEF, limit |-> limit,
                          aggregated |-> Bool(FALSE)])
  \/ \E borough \in {UNDEF, Str(<<"B", "X">>)}, limit \in {UNDEF, Num(0)} :
        SearchStreetClosures([borough |-> borough, work_type |-> UNDEF,
                              limit |-> limit, active_only |-> UNDEF])
  \/ \E data \in {NULL, Rows("A")} : UpstreamResponds(data)
  \/ UpstreamFails(500)
  \/ \E data \in {NULL, Rows("A")} : ComplaintsAttemptSucceeds(data)
  \/ \E status \in {400, 429} : ComplaintsAttemptFails(status, 0)
  \/ ComplaintsWake

SpecFailFast == Init /\ [][NextFailFast]_vars

(***************************************************************************)
(* Properties of the query cache                                           *)
(***************************************************************************)
FreshEntries(k) ==
  {i \in 1..Len(queryCache) :
     /\ queryCache[i].key = k
     /\ now - queryCache[i].timestamp <= queryCache[i].ttl}

StaleEntries(k) ==
  {i \in 1..Len(queryCache) :
     /\ queryCache[i].key = k
     /\ now - queryCache[i].timestamp > queryCache[i].ttl}

\* C1: a withCache call that starts while the cache holds an entry for its
\* endpoint and params whose age does not exceed its ttl (the entry a
\* completed earlier call stored) does not invoke the producer and returns
\* that entry's data with cached = true, whatever the stored value is.
C1_SecondCallServedFromCache ==
  [][\A e \in Endpoints, p \in ParamBags, ttl \in TTLs :
       LET k == getCacheKey(e, p) IN
       (WithCacheBegin("first", e, p, ttl, FALSE) /\ FreshEntries(k) # {})
       => \E i \in FreshEntries(k) :
            calls'["first"] = [pc |-> "returned", data |-> queryCache[i].data,
                               cached |-> TRUE, cacheKey |-> k]]_vars

\* C6: a read of an entry older than its ttl removes the entry; withCache
\* then awaits the producer, stores the producer's result with the current
\* time as timestamp and returns cached = false; a value is only ever served
\* from an entry whose age does not exceed its ttl.
C6_ReadOfStaleEntry(e, p) ==
  LET k == getCacheKey(e, p) IN
  StaleEntries(k) # {} =>
    /\ GetCached(k) =>
         /\ getResult' = NULL
         /\ \A j \in 1..Len(queryCache') : queryCache'[j].key # k
    /\ \A ttl \in TTLs :
         WithCacheBegin("first", e, p, ttl, FALSE)
         => /\ calls'["first"].pc = "awaiting"
            /\ \A j \in 1..Len(queryCache') : queryCache'[j].key # k

C6_ProducerResultStored ==
  \A d \in Payloads :
    (calls["first"].pc = "awaiting" /\ ProducerReturns("first", d)) =>
      /\ calls'["first"] = [pc |-> "returned", data |-> d, cached |-> FALSE,
                            cacheKey |-> calls["first"].key]
      /\ \E j \in 1..Len(queryCache') :
           queryCache'[j] = [key |-> calls["first"].key, data |-> d,
                             timestamp |-> now, ttl |-> calls["first"].ttl]

C6_OnlyFreshServed(e, p) ==
  LET k == getCacheKey(e, p) IN
  /\ \A ttl \in TTLs, skip \in BOOLEAN :
       (calls'["first"].pc = "returned"
          /\ WithCacheBegin("first", e, p, ttl, skip))
       => /\ calls'["first"].cached
          /\ calls'["first"].cacheKey = k
          /\ \E i \in FreshEntries(k) :
               queryCache[i].data = calls'["first"].data
  /\ (getResult' # NULL /\ GetCached(k))
       => \E i \in FreshEntries(k) : queryCache[i].data = getResult'

C6_ExpiredEntryIsRefetched ==
  [][/\ \A e \in Endpoints, p \in ParamBags :
          C6_ReadOfStaleEntry(e, p) /\ C6_OnlyFreshServed(e, p)
     /\ C6_ProducerResultStored]_vars

\* C6 witness: after the short ttl can have run out, a call has returned an
\* uncached result and the entry for its key carries the current timestamp.
C6_Witness ==
  /\ now > SHORT_TTL
  /\ calls["first"].pc = "returned"
  /\ ~calls["first"].cached
  /\ \E i \in 1..Len(queryCache) :
       /\ queryCache[i].key = calls["first"].cacheKey
       /\ queryCache[i].timestamp = now
       /\ queryCache[i].ttl = SHORT_TTL
       /\ queryCache[i].data = calls["first"].data

\* C7: the cache never holds more than MAX_SIZE entries, and an insertion
\* into a full cache removes exactly one entry, the one inserted earliest
\* among those present.
C7_Insertion ==
  \/ \E e \in Endpoints, p \in ParamBags, d \in Payloads, ttl \in TTLs :
       SetCache(getCacheKey(e, p), d, ttl)
  \/ \E d \in Payloads : ProducerReturns("first", d)

C7_OldestTimestamp ==
  CHOOSE t \in {queryCache[i].timestamp : i \in 1..Len(queryCache)} :
    \A i \in 1..Len(queryCache) : t <= queryCache[i].timestamp

C7_Vanished ==
  {i \in 1..Len(queryCache) :
     \A j \in 1..Len(queryCache') : queryCache'[j].key # queryCache[i].key}

C7_BoundedOldestFirstEviction ==
  [][/\ Len(queryCache') <= MAX_SIZE
     /\ (C7_Insertion /\ Len(queryCache) = MAX_SIZE) =>
          /\ Cardinality(C7_Vanished) <= 1
          /\ \A i \in C7_Vanished :
               queryCache[i].timestamp = C7_OldestTimestamp
          /\ C7_Vanished = {} =>
               \E i \in 1..Len(queryCache) :
                 /\ queryCache[i].timestamp = C7_OldestTimestamp
                 /\ queryCache[i] \notin
                      {queryCache'[j] : j \in 1..(Len(queryCache') - 1)}]_vars

(***************************************************************************)
(* Properties of withRetry.  retry.outcomes is what the operation did on   *)
(* each of its invocations so far.                                         *)
(***************************************************************************)
RetryableFailure(o) ==
  ~o.ok /\ (o.status = 0 \/ o.status = 429 \/ o.status \in 500..599)

FatalFailure(o) ==
  ~o.ok /\ o.status \in 400..499 /\ o.status # 429

FirstAllRetryable(m) ==
  \A i \in 1..m : RetryableFailure(retry.outcomes[i])

\* C2: after k retryable failures followed by a success (k < maxAttempts)
\* withRetry has invoked the operation k+1 times, has waited k times (once
\* between consecutive attempts) and has returned the success value; while
\* only retryable failures have occurred and attempts remain it keeps going.
C2_RetriesUntilSuccess ==
  LET n == Len(retry.outcomes) IN
  /\ (n >= 1 /\ retry.outcomes[n].ok /\ FirstAllRetryable(n - 1)
        /\ n - 1 < retry.maxAttempts)
       => /\ retry.pc = "returned"
          /\ retry.result = retry.outcomes[n].value
          /\ retry.invocations = n
          /\ retry.waits = n - 1
  /\ (FirstAllRetryable(n) /\ n < retry.maxAttempts)
       => \/ retry.pc = "sleeping" /\ retry.invocations = n
                                   /\ retry.waits = n
          \/ retry.pc = "calling" /\ retry.invocations = n + 1
                                  /\ retry.waits = n

\* C2 witness: two retryable failures, then a success on the third attempt.
C2_Witness ==
  /\ retry.pc = "returned"
  /\ Len(retry.outcomes) = 3
  /\ retry.outcomes[1].status = 503
  /\ retry.outcomes[2].status = 0
  /\ retry.waits = 2
  /\ retry.result = Rows("B")

C4_ExhaustionThrowsLastError ==
  LET n == Len(retry.outcomes) IN
  (retry.pc = "threw" /\ FirstAllRetryable(n))
    => /\ retry.invocations = retry.maxAttempts
       /\ retry.waits <= Max(0, retry.invocations - 1)
       /\ n >= 1
       /\ retry.thrown = [status |-> retry.outcomes[n].status,
                          raisedAt |-> n - 1]

(***************************************************************************)
(* Properties of autoPaginate                                              *)
(***************************************************************************)
RECURSIVE Flatten(_)
Flatten(pages) ==
  IF pages = <<>> THEN <<>>
  ELSE Head(pages).records \o Flatten(Tail(pages))

FetchedThrough(i) == Len(Flatten(SubSeq(pg.responses, 1, i)))

C5_RequestsBounded ==
  LET n == Len(pg.requests) IN
  /\ n <= pg.maxPages
  /\ \A i \in 1..n :
       /\ pg.requests[i] = [offset |-> (i - 1) * pg.pageSize,
                            limit |-> pg.pageSize]
       /\ FetchedThrough(i - 1) < pg.maxRecords
  /\ \A i \in 2..n : Len(pg.responses[i - 1].records) >= pg.pageSize
  /\ pg.pc = "done" =>
       /\ Len(pg.result) <= pg.maxRecords
       /\ pg.result = SubSeq(Flatten(pg.responses), 1, Len(pg.result))
       /\ Len(pg.result) = Min(pg.maxRecords, Len(Flatten(pg.responses)))

\* C5: autoPaginate issues at most maxPages requests, the i-th (from 0) at
\* offset i*pageSize, none after a page shorter than pageSize or once
\* maxRecords records are accumulated; it returns the pages concatenated in
\* request order and cut to maxRecords; and, every request settling, a
\* started call always finishes.
C5_PaginationTerminates ==
  /\ []C5_RequestsBounded
  /\ (pg.pc = "fetching") ~> (pg.pc \in {"done", "threw"})

\* C5 witness: three full pages were fetched and the result was cut.
C5_Witness ==
  /\ pg.pc = "done"
  /\ Len(pg.requests) = 3
  /\ pg.maxPages = 3
  /\ Len(pg.allRecords) > pg.maxRecords
  /\ Len(pg.result) = pg.maxRecords

(***************************************************************************)
(* Properties of validateAndEscapeString                                   *)
(***************************************************************************)
\* Replace each doubled quote by one, scanning left to right.
RECURSIVE Undouble(_)
Undouble(str) ==
  IF str = <<>> THEN <<>>
  ELSE IF Len(str) >= 2 /\ str[1] = Quote /\ str[2] = Quote
  THEN <<Quote>> \o Undouble(SubSeq(str, 3, Len(str)))
  ELSE <<Head(str)>> \o Undouble(Tail(str))

QuoteCount(str) == Cardinality({i \in 1..Len(str) : str[i] = Quote})

\* Every maximal run of quotes has even length.
QuoteRunsEven(str) ==
  \A i \in 1..Len(str) :
    (str[i] = Quote /\ (i = 1 \/ str[i - 1] # Quote)) =>
      \E j \in i..Len(str) :
        /\ \A m \in i..j : str[m] = Quote
        /\ (j = Len(str) \/ str[j + 1] # Quote)
        /\ (j - i + 1) % 2 = 0

\* The result is the input with each quote doubled.
IsQuoteDoubled(out, in) ==
  /\ Len(out) = Len(in) + QuoteCount(in)
  /\ Undouble(out) = in
  /\ QuoteRunsEven(out)

NonEmptyWithinLength ==
  /\ strCheck.pc = "done"
  /\ strCheck.value.t = "string"
  /\ strCheck.value.s # <<>>
  /\ Len(strCheck.value.s) <= strCheck.maxLength

ValidEscaped ==
  /\ strCheck.result.valid
  /\ "escaped" \in DOMAIN strCheck.result
  /\ IsQuoteDoubled(strCheck.result.escaped, strCheck.value.s)

\* C10 as stated: every non-empty string within maxLength is accepted and
\* returned with each single quote doubled.
C10_EveryStringWithinLengthEscaped ==
  NonEmptyWithinLength => ValidEscaped

\* C10 amended: every non-empty string within maxLength that matches the
\* pattern option, when one is given, is accepted and returned with each
\* single quote doubled: undoubling restores the input and every maximal
\* run of quotes in the output has even length.
C10_MatchingStringWithinLengthEscaped ==
  (NonEmptyWithinLength
     /\ (strCheck.pattern = "none"
           \/ \A i \in 1..Len(strCheck.value.s) :
                strCheck.value.s[i] # Quote))
    => ValidEscaped

\* C10 witness: a string with a run of quotes and a lone quote is escaped.
C10_Witness ==
  /\ strCheck.pc = "done"
  /\ strCheck.value = Str(<<Quote, Quote, "a", Quote>>)
  /\ strCheck.result.valid
  /\ strCheck.result.escaped =
       <<Quote, Quote, Quote, Quote, "a", Quote, Quote>>

(***************************************************************************)
(* Properties of the tool operations                                       *)
(***************************************************************************)
\* C8: every tool invocation settles by resolving to an envelope, a success
\* envelope or an error envelope with success = FALSE and an error object;
\* its promise never rejects with a raw exception, whatever the params bag
\* and whatever the upstream answer.
C8_ToolsSettleWithEnvelope ==
  tool.pc = "done" =>
    /\ tool.outcome = "resolved"
    /\ "success" \in DOMAIN tool.envelope
    /\ (~tool.envelope.success => "error" \in DOMAIN tool.envelope)

\* The parameters that carry free text of the caller.
FreeTextParams == {"agency", "fiscal_year", "complaint_type", "status",
                   "work_type"}

\* C9: in every query a tool sends upstream, the text interpolated into the
\* $where filter from a free-text parameter is that parameter with each
\* single quote doubled, as validateAndEscapeString returns it.
C9_FreeTextEscapedInWhere ==
  tool.pc # "idle" =>
    \A i \in 1..Len(tool.sent) :
      \A j \in 1..Len(tool.sent[i].where) :
        LET c == tool.sent[i].where[j]
        IN c.param \in FreeTextParams =>
             IsQuoteDoubled(c.text, toString(tool.params[c.param]))

(***************************************************************************)
(* Borough validation                                                      *)
(***************************************************************************)
BoroughChecked ==
  /\ valCheck.pc = "done"
  /\ valCheck.fn = "validateBorough"
  /\ Truthy(valCheck.value)

\* The inputs the documented contract accepts, in upper case.
DocumentedBoroughs ==
  {MANHATTAN, BRONX, BROOKLYN, QUEENS, STATEN_ISLAND}
    \cup {<<"M">>, <<"X">>, <<"K">>, <<"Q">>, <<"R">>}
    \cup {<<"M", "N">>, <<"B", "X">>, <<"B", "K">>, <<"Q", "N">>, <<"S", "I">>}
    \cup {<<"1">>, <<"2">>, <<"3">>, <<"4">>, <<"5">>}

\* C11: validateBorough accepts, in any letter case, every full name,
\* 1-letter code, 2-letter code and numeric code 1 to 5, and rejects every
\* other non-empty input with an INVALID_INPUT error that lists the five
\* valid borough names.
C11_BoroughAcceptance ==
  BoroughChecked =>
    IF toUpperCase(toString(valCheck.value)) \in DocumentedBoroughs
    THEN valCheck.result.valid
    ELSE /\ ~valCheck.result.valid
         /\ valCheck.result.error.success = FALSE
         /\ valCheck.result.error.error.type = ERROR_TYPES.INVALID_INPUT
         /\ valCheck.result.error.error.valid_names =
              {MANHATTAN, BRONX, BROOKLYN, QUEENS, STATEN_ISLAND}

\* C12: for every non-empty input validateBorough accepts, the normalized
\* value is one of the five upper-case full borough names.
C12_NormalizedIsFullName ==
  (BoroughChecked /\ valCheck.result.valid) =>
    /\ "normalized" \in DOMAIN valCheck.result
    /\ valCheck.result.normalized \in
         {Str(MANHATTAN), Str(BRONX), Str(BROOKLYN), Str(QUEENS),
          Str(STATEN_ISLAND)}

(***************************************************************************)
(* The empty string as an optional parameter                               *)
(***************************************************************************)
\* What the validator of the recorded call returns for an absent value.
ResultForAbsent ==
  LET o == valCheck.options IN
  CASE valCheck.fn = "validateBorough" -> validateBorough(UNDEF)
    [] valCheck.fn = "validateDays" ->
         validateDays(UNDEF, o.min, o.max, o.required)
    [] valCheck.fn = "validateLimit" ->
         validateLimit(UNDEF, o.min, o.max, o.defaultValue)
    [] valCheck.fn = "validateEnum" ->
         validateEnum(UNDEF, o.validValues, "parameter", o.required)
    [] valCheck.fn = "validateDate" ->
         validateDate(UNDEF, "date", o.required)

\* C13: each validator called with the empty string for an optional
\* parameter returns valid:true, the same object as for an absent value,
\* and no error.
C13_EmptyStringIsAbsent ==
  /\ (/\ valCheck.pc = "done"
      /\ valCheck.value = Str(<<>>)
      /\ ~valCheck.options.required)
       => /\ valCheck.result.valid
          /\ "error" \notin DOMAIN valCheck.result
          /\ valCheck.result = ResultForAbsent
  /\ (/\ strCheck.pc = "done"
      /\ strCheck.value = Str(<<>>)
      /\ ~strCheck.required)
       => /\ strCheck.result.valid
          /\ "error" \notin DOMAIN strCheck.result
          /\ strCheck.result =
               validateAndEscapeString(UNDEF, strCheck.maxLength,
                                       strCheck.pattern, FALSE, "parameter")

(***************************************************************************)
(* Validation before any request                                           *)
(***************************************************************************)
ValidatingTools ==
  {"searchComplaints", "searchStreetClosures", "analyzeTrends",
   "searchViolations"}

\* Some parameter of the call fails its validator, with the options and
\* defaults the tool passes.
FailsValidation(name, p) ==
  CASE name = "searchComplaints" ->
         \/ ~validateAndEscapeString(p.complaint_type, 200, "none", FALSE,
                                     "complaint_type").valid
         \/ ~validateBorough(p.borough).valid
         \/ ~validateLimit(Default(p.limit, Num(100)), 1, 10000, 100).valid
         \/ ~validateDate(p.start_date, "start_date", FALSE).valid
         \/ ~validateDate(p.end_date, "end_date", FALSE).valid
         \/ ~validateDays(p.days, 1, 365, FALSE).valid
    [] name = "analyzeTrends" ->
         \/ ~validateEnum(Default(p.group_by, Str(DAY)), <<DAY, WEEK, MONTH>>,
                          "group_by", FALSE).valid
         \/ ~validateDays(Default(p.days, Num(90)), 1, 365, FALSE).valid
         \/ ~validateBorough(p.borough).valid
         \/ ~validateAndEscapeString(p.complaint_type, 200, "none", FALSE,
                                     "complaint_type").valid
    [] name = "searchViolations" ->
         \/ ~validateBorough(p.borough).valid
         \/ ~validateAndEscapeString(p.status, 50, "none", FALSE,
                                     "status").valid
         \/ ~validateDays(Default(p.days, Num(365)), 1, 365, FALSE).valid
         \/ ~validateLimit(Default(p.limit, Num(100)), 1, 10000, 100).valid
    [] name = "searchStreetClosures" ->
         \/ ~validateBorough(p.borough).valid
         \/ ~validateAndEscapeString(p.work_type, 100, "none", FALSE,
                                     "work_type").valid
         \/ ~validateLimit(Default(p.limit, Num(1000)), 1, 5000, 1000).valid
    [] OTHER -> FALSE

\* A step that calls one of the validating tools.
ToolCalled ==
  /\ ToolIdle
  /\ tool'.pc # "idle"
  /\ tool'.name \in ValidatingTools

\* C14: when a parameter fails validation the tool returns the error
\* envelope in the step of the call, no request is issued, and the query
\* cache, the request counter and the retry state are left unchanged.
C14_ValidationBeforeRequest ==
  [][(ToolCalled /\ FailsValidation(tool'.name, tool'.params)) =>
       /\ tool'.pc = "done"
       /\ tool'.outcome = "resolved"
       /\ tool'.envelope.success = FALSE
       /\ tool'.envelope.error.type = ERROR_TYPES.VALIDATION_ERROR
       /\ tool'.sent = <<>>
       /\ UNCHANGED <<queryCache, calls, requestCount, requestWindow,
                      retry>>]_vars

\* searchComplaints has answered an invalid call with the error envelope
\* while the cache holds an entry and requests have been counted.
C14_Witness ==
  /\ tool.pc = "done"
  /\ tool.name = "searchComplaints"
  /\ FailsValidation(tool.name, tool.params)
  /\ tool.envelope.success = FALSE
  /\ tool.sent = <<>>
  /\ queryCache # <<>>
  /\ requestCount > 0

(***************************************************************************)
(* Failures of the cache itself                                            *)
(***************************************************************************)
\* C15: a withCache call never fails on account of the cache: whatever the
\* params are, the step that starts the call either returns a cached value
\* or invokes the producer, whose result is then returned with cached =
\* false; it never throws.
C15_CacheFailureNotFatal ==
  [][(calls["first"].pc # "awaiting" /\ calls'["first"] # calls["first"])
       => calls'["first"].pc \in {"awaiting", "returned"}]_vars

(***************************************************************************)
(* De-duplication                                                          *)
(***************************************************************************)
RecordsDeduplicated ==
  /\ dedup.pc \in {"done", "again"}
  /\ dedup.fn = "deduplicateRecords"

KeyAt(records, i) == records[i][dedup.keyField]

\* C16: no two records of the output of deduplicateRecords carry the same
\* key value, for every key value other than null and undefined (0, the
\* empty string and false included).
C16_NoTwoRecordsShareKey ==
  RecordsDeduplicated =>
    LET out == dedup.result.records IN
    \A i, j \in 1..Len(out) :
      (i < j /\ KeyAt(out, i) \notin {UNDEF, NULL})
        => KeyAt(out, j) # KeyAt(out, i)

RECURSIVE IsSubsequence(_, _)
IsSubsequence(a, b) ==
  IF a = <<>> THEN TRUE
  ELSE IF b = <<>> THEN FALSE
  ELSE IF Head(a) = Head(b) THEN IsSubsequence(Tail(a), Tail(b))
  ELSE IsSubsequence(a, Tail(b))

\* The first record of `records` that carries the key of records[i].
FirstWithKey(records, i) ==
  records[CHOOSE j \in 1..Len(records) :
            /\ KeyAt(records, j) = KeyAt(records, i)
            /\ \A h \in 1..(j - 1) : KeyAt(records, h) # KeyAt(records, i)]

\* C18: the output of deduplicateRecords is the surviving input records in
\* their original relative order; for each key the first input record that
\* carries it is in the output, unchanged, as the first output record with
\* that key; and original_count = deduplicated_count + duplicates_removed.
C18_FirstKeptInOrder ==
  RecordsDeduplicated =>
    LET in == dedup.input
        out == dedup.result.records
    IN /\ IsSubsequence(out, in)
       /\ \A i \in 1..Len(in) :
            /\ \E m \in 1..Len(out) : KeyAt(out, m) = KeyAt(in, i)
            /\ FirstWithKey(out, CHOOSE m \in 1..Len(out) :
                                   KeyAt(out, m) = KeyAt(in, i))
                 = FirstWithKey(in, i)
       /\ dedup.result.original_count = Len(in)
       /\ dedup.result.deduplicated_count = Len(out)
       /\ dedup.result.original_count =
            dedup.result.deduplicated_count + dedup.result.duplicates_removed

\* Two later records repeating the key of the first were dropped and a
\* record without a key was kept.
C18_Witness ==
  /\ RecordsDeduplicated
  /\ dedup.keyField = "unique_key"
  /\ dedup.input = <<[unique_key |-> Str(<<"1">>), value |-> Num(1)],
                     [unique_key |-> UNDEF, value |-> Num(2)],
                     [unique_key |-> Str(<<"1">>), value |-> Num(2)]>>
  /\ dedup.result.records = <<[unique_key |-> Str(<<"1">>), value |-> Num(1)],
                              [unique_key |-> UNDEF, value |-> Num(2)]>>
  /\ dedup.result.duplicates_removed = 1

\* C19: deduplicateRecords applied to the records it returned gives the
\* same list in the same order and removes nothing.
C19_Idempotent ==
  (dedup.pc = "again" /\ dedup.fn = "deduplicateRecords") =>
    /\ dedup.second.records = dedup.result.records
    /\ dedup.second.duplicates_removed = 0
    /\ dedup.second.deduplicated_count = dedup.result.deduplicated_count

\* The first application removed duplicates; the second was applied.
C19_Witness ==
  /\ dedup.pc = "again"
  /\ dedup.fn = "deduplicateRecords"
  /\ dedup.result.duplicates_removed = 2
  /\ dedup.second.records = dedup.result.records

RECURSIVE SumOfPair(_, _, _)
SumOfPair(records, period, topic) ==
  IF records = <<>> THEN 0
  ELSE (IF Head(records).period = period /\ Head(records).topic = topic
        THEN Head(records).count ELSE 0)
       + SumOfPair(Tail(records), period, topic)

\* C20: deduplicateAggregated returns exactly one record per distinct
\* (period, topic) pair of the input, whose count is the sum of the counts
\* of the input records with that pair; records with different pairs are
\* never summed together.
C20_OnePerPairSummed ==
  (dedup.pc = "done" /\ dedup.fn = "deduplicateAggregated") =>
    LET in == dedup.input
        out == dedup.result
        Pairs == {<<in[i].period, in[i].topic>> : i \in 1..Len(in)}
    IN /\ Len(out) = Cardinality(Pairs)
       /\ \A pair \in Pairs :
            \E m \in 1..Len(out) :
              /\ out[m].period = pair[1]
              /\ out[m].topic = pair[2]
              /\ out[m].count = SumOfPair(in, pair[1], pair[2])
              /\ \A h \in 1..Len(out) :
                   (out[h].period = pair[1] /\ out[h].topic = pair[2])
                     => h = m

(***************************************************************************)
(* Records without a key                                                   *)
(***************************************************************************)
Nullish(v) == v \in {UNDEF, NULL}

ClosuresDeduplicated ==
  /\ tool.pc = "done"
  /\ tool.name = "searchStreetClosures"
  /\ tool.outcome = "resolved"
  /\ tool.envelope.success
  /\ "duplicates_removed" \in DOMAIN tool.envelope.meta

\* C17: in deduplicateRecords and in the de-duplication of
\* searchStreetClosures, the records whose key fields are null or undefined
\* are never merged: each is an output record of its own, and
\* duplicates_removed counts only records that carry a key.
C17_KeylessNeverMerged ==
  /\ RecordsDeduplicated =>
       LET in == dedup.input
           out == dedup.result.records
           keyedIn == {i \in 1..Len(in) : ~Nullish(KeyAt(in, i))}
           keyedOut == {m \in 1..Len(out) : ~Nullish(KeyAt(out, m))}
       IN /\ Len(out) - Cardinality(keyedOut) = Len(in) - Cardinality(keyedIn)
          /\ dedup.result.duplicates_removed =
               Cardinality(keyedIn) - Cardinality(keyedOut)
  /\ ClosuresDeduplicated =>
       LET in == tool.responses[1].items
           out == tool.envelope.records
           keyedIn == {i \in 1..Len(in) :
                         ~(/\ Nullish(in[i].segmentid)
                           /\ Nullish(in[i].work_start_date)
                           /\ Nullish(in[i].work_end_date))}
           keyedOut == {m \in 1..Len(out) :
                          ~(/\ Nullish(out[m].segment_id)
                            /\ Nullish(out[m].work_start_date)
                            /\ Nullish(out[m].work_end_date))}
       IN /\ Len(out) - Cardinality(keyedOut) = Len(in) - Cardinality(keyedIn)
          /\ tool.envelope.meta.duplicates_removed =
               Cardinality(keyedIn) - Cardinality(keyedOut)

(***************************************************************************)
(* Street-closure de-duplication                                           *)
(***************************************************************************)
\* The distinct non-empty purposes of the rows, in first-seen order.
RECURSIVE FirstSeenPurposes(_, _)
FirstSeenPurposes(seen, rows) ==
  IF rows = <<>> THEN seen
  ELSE LET purpose == Head(rows).purpose
       IN FirstSeenPurposes(
            IF Truthy(purpose) /\ ~\E h \in 1..Len(seen) : seen[h] = purpose
            THEN Append(seen, purpose) ELSE seen,
            Tail(rows))

SameTriple(row, closure) ==
  /\ row.segmentid = closure.segment_id
  /\ row.work_start_date = closure.work_start_date
  /\ row.work_end_date = closure.work_end_date

RowsOfTriple(rows, closure) ==
  SelectSeq(rows, LAMBDA row : SameTriple(row, closure))

\* C21: the de-duplication of searchStreetClosures yields one record per
\* distinct (segment id, start date, end date) triple of the raw rows; the
\* record's purposes are the distinct non-empty purposes of the rows with
\* that triple, each once, in first-seen order; purpose_merged is that
\* list joined by '; '; duplicates_removed is the raw row count minus the
\* number of output records.
C21_OnePerTripleWithPurposes ==
  ClosuresDeduplicated =>
    LET in == tool.responses[1].items
        out == tool.envelope.records
    IN /\ \A i \in 1..Len(in) :
            Cardinality({m \in 1..Len(out) : SameTriple(in[i], out[m])}) = 1
       /\ \A m \in 1..Len(out) :
            LET rows == RowsOfTriple(in, out[m])
            IN /\ rows # <<>>
               /\ out[m].purposes = FirstSeenPurposes(<<>>, rows)
               /\ out[m].purpose_merged = Str(join(out[m].purposes))
       /\ tool.envelope.meta.duplicates_removed = Len(in) - Len(out)

(***************************************************************************)
(* Trend of a timeline                                                     *)
(***************************************************************************)
TrendComputed == trend.pc = "done"

RECURSIVE CountsBetween(_, _, _)
CountsBetween(timeline, lo, hi) ==
  IF lo > hi THEN 0
  ELSE timeline[lo].count + CountsBetween(timeline, lo + 1, hi)

WindowReturned == timeWindow.pc = "done" /\ ~timeWindow.result.threw

C24_DaysIsCeilingOfElapsed ==
  WindowReturned =>
    timeWindow.result.days
      = ceilDays(Elapsed(timeWindow.result.end, timeWindow.result.start))

(***************************************************************************)
(* The wait before a retry                                                 *)
(***************************************************************************)
\* C25: the wait withRetry performs before a retry never exceeds maxDelay,
\* whatever the attempt number and the jitter draw.
C25_WaitWithinMaxDelay ==
  retry.pc = "sleeping" => retry.delay <= retry.maxDelay

(***************************************************************************)
(* Geographic enrichment                                                   *)
(***************************************************************************)
Enriched == geo.pc = "done"

\* C26: for every record, each of borough_id, cd, cd_numeric, nta, bbl, lat
\* and lon that enrich311Geo returns is a value derived from the record or
\* null: never undefined, and cd never a string built from a missing
\* borough id.
C26_BestEffortFieldsNullWhenMissing ==
  Enriched =>
    LET r == geo.returned
    IN /\ \A field \in {"borough_id", "cd", "cd_numeric", "nta", "bbl",
                         "lat", "lon"} : r[field] # UNDEF
       /\ r.cd # NULL => \A i \in 1..Len(r.cd.s) : r.cd.s[i] \in DigitChars
       /\ r.borough_id # NULL =>
            \E i \in 1..Len(BOROUGH_TO_ID) :
              /\ r.borough = Str(BOROUGH_TO_ID[i][1])
              /\ r.borough_id = Str(<<BOROUGH_TO_ID[i][2]>>)

\* C30: after any sequence of earlier calls, enrich311Geo returns for a
\* record what the computation without the Map yields for that record.
C30_MemoizationTransparent ==
  Enriched => geo.returned = enrich(geo.record)

(***************************************************************************)
(* Pagination with retry                                                   *)
(***************************************************************************)
PaginatedWithRetry ==
  /\ reliable.pc \in {"paginating", "returned", "threw"}
  /\ reliable.usePagination
  /\ reliable.useRetry
  /\ ~reliable.cached

\* C27: reliableRequest with usePagination and useRetry composes the two:
\* every request it makes is counted by the request tracker, and a page
\* request that fails with 429 or 5xx is attempted again, so the call fails
\* on such errors only once the attempts are used up, not on the first.
C27_PaginationComposesWithRetry ==
  PaginatedWithRetry =>
    /\ reliable.requested > 0 => requestCount > 0
    /\ (/\ reliable.pc = "threw"
        /\ \A i \in 1..Len(reliable.failures) :
             ~isFatalStatus(reliable.failures[i]))
         => Len(reliable.failures) = RETRY_CONFIG.max_attempts

(***************************************************************************)
(* Overlapping withCache calls                                             *)
(***************************************************************************)
\* C28: when two withCache calls for the same endpoint and params overlap,
\* the producer is invoked at most once for the key, so the two calls are
\* never both suspended on a producer of their own; and an entry stored for
\* the key holds a result a producer returned.
C28_OverlappingCallsShareProducer ==
  /\ ~(/\ calls["first"].pc = "awaiting"
       /\ calls["second"].pc = "awaiting"
       /\ calls["first"].key = calls["second"].key)
  /\ \A i \in 1..Len(queryCache) :
       queryCache[i].data \in {Rows("A"), Rows("B")}

(***************************************************************************)
(* Cache keys                                                              *)
(***************************************************************************)
\* The content of a value: for an object its properties whatever their
\* order, a property holding undefined being a property.
RECURSIVE Content(_)
Content(value) ==
  IF value.t = "object"
  THEN [t |-> "object",
        content |-> {<<value.props[i][1], Content(value.props[i][2])>> :
                       i \in 1..Len(value.props)}]
  ELSE value

\* C29: withCache never serves data produced for another endpoint or for
\* params of different content: the key is the same for the same content
\* in any key order and differs when any value differs, nested values and
\* undefined-versus-absent included.
C29_CacheKeyTellsRequestsApart ==
  keyed.pc # "idle" =>
    /\ (keyed.pc = "returned" /\ keyed.call.cached) =>
          /\ keyed.call.data.endpoint = keyed.endpoint
          /\ Content(keyed.call.data.params) = Content(keyed.params)
    /\ \A i \in 1..Len(queryCache) :
         (queryCache[i].key = getCacheKeyOf(keyed.endpoint, keyed.params))
           <=> (/\ queryCache[i].data.endpoint = keyed.endpoint
                /\ Content(queryCache[i].data.params)
                     = Content(keyed.params))

====
